---- MODULE Spec2Model ----
(***************************************************************************)
(* Task-management API: the task and organization domain services and the  *)
(* GORM repositories they write through.                                   *)
(*                                                                         *)
(* The state is the content of the five tables.  Every service method is   *)
(* an operator from a database and the call's inputs to the error it       *)
(* returns and the database it leaves, and one action that applies it to   *)
(* the current tables; `last` records the most recent call that succeeded  *)
(* or wrote something.                                                     *)
(*                                                                         *)
(* Rows of soft-deleted models (Task, TaskAssignment, Organization) keep   *)
(* their key with state "deleted"; OrganizationMember has no DeletedAt     *)
(* column and its rows are removed.                                        *)
(***************************************************************************)
EXTENDS Integers, Sequences, FiniteSets, TLC

\* ---- bounds of the model ----
NumUsers == 2
NumOrgs  == 2
MaxTasks == 1
MaxIDs   == 2
NumCodes == 3
NumProcs == 2

UserRows == 1..NumUsers            \* IDs of the rows of table users
UserIDs  == 1..(NumUsers + 1)      \* the last ID has no row in users
OrgIDs   == 1..NumOrgs
TaskIDs  == 1..MaxTasks
NoID     == 0
InviteCodes == 1..NumCodes         \* the codes the generator can return

Nil == "nil"

\* models.TaskStatus
TaskStatusTodo == "TODO"
TaskStatusDone == "DONE"
\* CreateTaskInput.Status / UpdateTaskInput.Status are strings: the two
\* constants, one other string, and "" (unset)
StatusInputs == {"", TaskStatusTodo, TaskStatusDone, "IN_PROGRESS"}
UpdateStatusInputs == {Nil, TaskStatusTodo, TaskStatusDone, "IN_PROGRESS"}
TitleInputs  == {"", "a"}
NonEmptyTitles == TitleInputs \ {""}
NameInputs   == {"", " ", "Org"}

\* the repository write of CreateTask that returns a storage error, if any
StorageFaults == {"none", "create", "assign"}

\* models.OrganizationRole
RoleOwner  == "owner"
RoleMember == "member"
NoRow == "none"

VARIABLES
    users,        \* set of IDs of live rows of users
    orgs,         \* organizations: [state, invite_code] by ID
    members,      \* organization_members: role by (organization, user), NoRow when absent
    tasks,        \* tasks: [state, status, organization_id, creator_id] by ID
    assignments,  \* task_assignments: "none" | "live" | "deleted" by (task, user)
    last,         \* the most recent service call
    cascade,      \* OrganizationHandler.DeleteOrganization in progress: [org, step]
    usernames,    \* users.username by ID, Nil without a row
    generation,   \* the GenerateTasks call in hand: its inputs and what it returned
    details,      \* tasks: [title, description, due_date] by ID, where UpdateTask is followed
    update,       \* the UpdateTask call in hand: its inputs and the error it returned
    listing,      \* the ListTasks call in hand: its inputs and what it returned
    inflight      \* by request in progress: the call between its read and its write

vars == <<users, orgs, members, tasks, assignments, last, cascade, usernames, generation,
          details, update, listing, inflight>>

\* the tables as one value
DB == [users |-> users, orgs |-> orgs, members |-> members, tasks |-> tasks,
       assignments |-> assignments, usernames |-> usernames]

NoTask == [state |-> "none", status |-> "", organization_id |-> NoID, creator_id |-> NoID]
NoOrg  == [state |-> "none", invite_code |-> NoID]
NoAssignments == [u \in UserIDs |-> "none"]

\* all sequences of user IDs of length 0..MaxIDs (request bodies' user_ids)
IDLists == UNION {[1..n -> UserIDs] : n \in 0..MaxIDs}
NonEmptyIDLists == IDLists \ {<<>>}

Range(s) == {s[i] : i \in 1..Len(s)}

\* ---- helpers ----

\* strings.TrimSpace on the names the model feeds in
TrimSpace(s) == IF s = " " THEN "" ELSE s

\* uniqueUint64: first occurrences, in order
RECURSIVE uniqueUint64(_)
uniqueUint64(values) ==
    IF values = <<>> THEN <<>>
    ELSE LET front == uniqueUint64(SubSeq(values, 1, Len(values) - 1))
             v == values[Len(values)]
         IN IF v \in Range(front) THEN front ELSE Append(front, v)

\* auto-increment primary keys: the smallest ID never used, NoID when the
\* model's IDs are used up
NextID(table, ids) ==
    IF \E i \in ids : table[i].state = "none"
    THEN CHOOSE i \in ids : table[i].state = "none" /\ \A j \in ids : j < i => table[j].state # "none"
    ELSE NoID

\* utils.GenerateInviteCode: a random code; the unique index on invite_code
\* lets a row be created only with a code no row holds, and the model names
\* the code of the organization with ID id by that ID
GenerateInviteCode(id) == id

\* the unique index on organizations.invite_code: another row, live or
\* soft-deleted, holds the code
CodeTaken(db, code, except) ==
    \E o \in OrgIDs \ {except} : db.orgs[o].state # "none" /\ db.orgs[o].invite_code = code

\* ---- repositories ----

\* GormOrganizationRepository.FindMember: the row's role, NoRow for
\* ErrRecordNotFound
FindMember(db, organizationID, userID) ==
    IF organizationID \in OrgIDs /\ userID \in UserIDs
    THEN db.members[organizationID][userID]
    ELSE NoRow

\* GormOrganizationRepository.FindByID (soft-deleted rows are not found)
OrgFindByID(db, id) == id \in OrgIDs /\ db.orgs[id].state = "live"

\* variant of FindByInviteCode that reads soft-deleted rows too (C30 must
\* reject it)
FindByInviteCode_Unscoped(db, code) ==
    IF \E o \in OrgIDs : db.orgs[o].state # "none" /\ db.orgs[o].invite_code = code
    THEN CHOOSE o \in OrgIDs : db.orgs[o].state # "none" /\ db.orgs[o].invite_code = code
    ELSE NoID

\* GormOrganizationRepository.FindByInviteCode: the ID of the live row, or NoID
FindByInviteCode(db, code) ==
    IF \E o \in OrgIDs : db.orgs[o].state = "live" /\ db.orgs[o].invite_code = code
    THEN CHOOSE o \in OrgIDs : db.orgs[o].state = "live" /\ db.orgs[o].invite_code = code
    ELSE NoID

\* GormOrganizationRepository.ListMembersByUserID: the organizations of the rows
ListMembersByUserID(db, userID) == {o \in OrgIDs : db.members[o][userID] # NoRow}

\* GormTaskRepository.FindByID (soft-deleted rows are not found)
FindByID(db, id) == id \in TaskIDs /\ db.tasks[id].state = "live"

\* Preload("Assignments"): the users of the live assignment rows of a task
Assignments(db, taskID) == {u \in UserIDs : db.assignments[taskID][u] = "live"}

\* variant of CountUsersByIDs without the join on organization_members of the
\* task's organization: counts the listed users that exist (C3 must reject it)
CountUsersByIDs_AnyOrganization(db, userIDs, organizationID) ==
    Cardinality({u \in db.users : u \in Range(userIDs)})

\* GormTaskRepository.CountUsersByIDs: users JOIN organization_members
CountUsersByIDs(db, userIDs, organizationID) ==
    Cardinality({u \in db.users :
                    u \in Range(userIDs) /\ FindMember(db, organizationID, u) # NoRow})

\* variant of the repository's AssignUsers with a plain INSERT: a row that
\* already exists, live or soft-deleted, is a duplicate key (C4 must reject it)
RepoAssignUsers_InsertOnly(db, taskID, userIDs) ==
    IF \E u \in Range(userIDs) : db.assignments[taskID][u] # "none"
    THEN [err |-> "duplicate key", db |-> db]
    ELSE [err |-> "ok",
          db |-> [db EXCEPT !.assignments[taskID] =
                     [u \in UserIDs |-> IF u \in Range(userIDs) THEN "live" ELSE @[u]]]]

\* GormTaskRepository.AssignUsers: INSERT .. ON CONFLICT (task_id, user_id)
\* DO UPDATE SET deleted_at = NULL
RepoAssignUsers(db, taskID, userIDs) ==
    [err |-> "ok",
     db |-> [db EXCEPT !.assignments[taskID] =
                [u \in UserIDs |-> IF u \in Range(userIDs) THEN "live" ELSE @[u]]]]

\* GormTaskRepository.UnassignUsers: soft delete of the matching live rows
RepoUnassignUsers(db, taskID, userIDs) ==
    [db EXCEPT !.assignments[taskID] =
        [u \in UserIDs |-> IF u \in Range(userIDs) /\ @[u] = "live" THEN "deleted" ELSE @[u]]]

\* variant of the repository's Delete that soft-deletes the task row only
\* (C9 must reject it)
RepoDelete_TaskOnly(db, id) == [db EXCEPT !.tasks[id].state = "deleted"]

\* GormTaskRepository.Delete: one transaction soft-deleting the task's
\* assignment rows and the task
RepoDelete(db, id) ==
    [db EXCEPT !.assignments[id] = [u \in UserIDs |-> IF @[u] = "live" THEN "deleted" ELSE @[u]],
               !.tasks[id].state = "deleted"]

\* GormTaskRepository.List restricted to the filters of organization,
\* status and assignee: the set of matching task IDs
RepoList(db, organizationIDs, status, assignedUserID) ==
    {t \in TaskIDs :
        /\ db.tasks[t].state = "live"
        /\ db.tasks[t].organization_id \in organizationIDs
        /\ (status # Nil => db.tasks[t].status = status)
        /\ (assignedUserID # NoID => db.assignments[t][assignedUserID] = "live")}

\* GormOrganizationRepository.Delete: one transaction soft-deleting the
\* organization's tasks, removing its members and soft-deleting it
OrgRepoDelete(db, id) ==
    [db EXCEPT !.tasks = [t \in TaskIDs |->
                            IF @[t].state = "live" /\ @[t].organization_id = id
                            THEN [@[t] EXCEPT !.state = "deleted"] ELSE @[t]],
               !.members[id] = [u \in UserIDs |-> NoRow],
               !.orgs[id].state = "deleted"]


\* ---- TaskService ----

\* variant of ensureOrganizationMember that lets everybody through (C1 must
\* reject it)
ensureOrganizationMember_Skipped(db, orgID, userID) == "ok"

\* TaskService.ensureOrganizationMember
ensureOrganizationMember(db, orgID, userID) ==
    IF FindMember(db, orgID, userID) = NoRow THEN "NotOrganizationMember" ELSE "ok"

\* variant of the creator check that also lets an owner of the task's
\* organization through (C5 must reject it)
NotTaskCreator_OwnerExempt(db, taskID, actorID) ==
    /\ db.tasks[taskID].creator_id # actorID
    /\ FindMember(db, db.tasks[taskID].organization_id, actorID) # RoleOwner

\* task.CreatorID != actorID in DeleteTask, AssignUsers and UnassignUsers
NotTaskCreator(db, taskID, actorID) == db.tasks[taskID].creator_id # actorID

\* variant of the permission check that reads the assignment rows unscoped,
\* soft-deleted ones included (C8 must reject it)
TogglePermitted_Unscoped(db, taskID, actorID) ==
    \/ db.tasks[taskID].creator_id = actorID
    \/ actorID \in UserIDs /\ db.assignments[taskID][actorID] # "none"

\* the permission check of ToggleTaskStatus
TogglePermitted(db, taskID, actorID) ==
    db.tasks[taskID].creator_id = actorID \/ actorID \in Assignments(db, taskID)

\* the status ToggleTaskStatus writes
Toggled(status) == IF status = TaskStatusDone THEN TaskStatusTodo ELSE TaskStatusDone

\* variant of resolveAccessibleOrganizationIDs that trusts an explicit
\* organization ID (C11 must reject it)
resolveAccessibleOrganizationIDs_Trusting(db, userID, organizationID) ==
    IF organizationID # NoID
    THEN [err |-> "ok", ids |-> {organizationID}]
    ELSE [err |-> "ok", ids |-> ListMembersByUserID(db, userID)]

\* TaskService.resolveAccessibleOrganizationIDs: [err, ids]
resolveAccessibleOrganizationIDs(db, userID, organizationID) ==
    IF organizationID # NoID
    THEN IF ensureOrganizationMember(db, organizationID, userID) # "ok"
         THEN [err |-> "NotOrganizationMember", ids |-> {}]
         ELSE [err |-> "ok", ids |-> {organizationID}]
    ELSE [err |-> "ok", ids |-> ListMembersByUserID(db, userID)]

\* TaskService.ListTasks: [err, tasks]
ListTasks(db, userID, organizationID, assignedToMe, status) ==
    LET r == resolveAccessibleOrganizationIDs(db, userID, organizationID)
    IN  IF r.err # "ok" THEN [err |-> r.err, tasks |-> {}]
        ELSE IF r.ids = {} THEN [err |-> "ok", tasks |-> {}]
        ELSE [err |-> "ok",
              tasks |-> RepoList(db, r.ids, status, IF assignedToMe THEN userID ELSE NoID)]

\* TaskService.GetTask: the error it returns
GetTask(db, taskID) == IF FindByID(db, taskID) THEN "ok" ELSE "TaskNotFound"

\* variant of CreateTask that forgets the self-assignment (C2 must reject it)
CreateTask_NoSelfAssignment(db, title, status, organizationID, creatorID, fault) ==
    LET id == NextID(db.tasks, TaskIDs)
        row == [state |-> "live", status |-> IF status = "" THEN TaskStatusTodo ELSE status,
                organization_id |-> organizationID, creator_id |-> creatorID]
    IN  IF title = "" THEN [err |-> "TitleRequired", db |-> db, id |-> NoID]
        ELSE IF FindMember(db, organizationID, creatorID) = NoRow
        THEN [err |-> "NotOrganizationMember", db |-> db, id |-> NoID]
        ELSE IF fault = "create" THEN [err |-> "failed to create task", db |-> db, id |-> NoID]
        ELSE [err |-> "ok", db |-> [db EXCEPT !.tasks[id] = row], id |-> id]

\* TaskService.CreateTask: [err, db, id].  fault names the repository write
\* that fails with a storage error: "none", "create" (taskRepo.Create) or
\* "assign" (taskRepo.AssignUsers).
CreateTask(db, title, status, organizationID, creatorID, fault) ==
    LET id == NextID(db.tasks, TaskIDs)
        row == [state |-> "live", status |-> IF status = "" THEN TaskStatusTodo ELSE status,
                organization_id |-> organizationID, creator_id |-> creatorID]
        created == [db EXCEPT !.tasks[id] = row]
        assigned == RepoAssignUsers(created, id, <<creatorID>>)
    IN  IF title = "" THEN [err |-> "TitleRequired", db |-> db, id |-> NoID]
        ELSE IF ensureOrganizationMember(db, organizationID, creatorID) # "ok"
        THEN [err |-> "NotOrganizationMember", db |-> db, id |-> NoID]
        ELSE IF fault = "create" THEN [err |-> "failed to create task", db |-> db, id |-> NoID]
        ELSE IF fault = "assign" \/ assigned.err # "ok"
        THEN [err |-> "failed to assign creator to task", db |-> created, id |-> id]
        ELSE [err |-> "ok", db |-> assigned.db, id |-> id]

\* TaskService.UpdateTask: [err, db].  title and status are Nil when the
\* field is absent from the input.
UpdateTask(db, taskID, title, status) ==
    IF ~FindByID(db, taskID) THEN [err |-> "TaskNotFound", db |-> db]
    ELSE IF title = "" THEN [err |-> "TitleEmpty", db |-> db]
    ELSE [err |-> "ok",
          db |-> [db EXCEPT !.tasks[taskID].status = IF status # Nil THEN status ELSE @]]

\* TaskService.DeleteTask: [err, db]
DeleteTask(db, taskID, actorID) ==
    IF ~FindByID(db, taskID) THEN [err |-> "TaskNotFound", db |-> db]
    ELSE IF NotTaskCreator(db, taskID, actorID) THEN [err |-> "NotTaskCreator", db |-> db]
    ELSE [err |-> "ok", db |-> RepoDelete(db, taskID)]

\* TaskService.AssignUsers: [err, db]
AssignUsers(db, taskID, actorID, userIDs) ==
    LET ids == uniqueUint64(userIDs)
    IN  IF Len(userIDs) = 0 THEN [err |-> "NoUserIDsProvided", db |-> db]
        ELSE IF ~FindByID(db, taskID) THEN [err |-> "TaskNotFound", db |-> db]
        ELSE IF NotTaskCreator(db, taskID, actorID) THEN [err |-> "NotTaskCreator", db |-> db]
        ELSE IF CountUsersByIDs(db, ids, db.tasks[taskID].organization_id) # Len(ids)
        THEN [err |-> "InvalidTaskAssignee", db |-> db]
        ELSE IF RepoAssignUsers(db, taskID, ids).err # "ok"
        THEN [err |-> "failed to assign users", db |-> db]
        ELSE [err |-> "ok", db |-> RepoAssignUsers(db, taskID, ids).db]

\* variant of UnassignUsers that validates its targets the way AssignUsers
\* does (C6 must reject it)
UnassignUsers_Validating(db, taskID, actorID, userIDs) ==
    LET ids == uniqueUint64(userIDs)
    IN  IF Len(userIDs) = 0 THEN [err |-> "NoUserIDsProvided", db |-> db]
        ELSE IF ~FindByID(db, taskID) THEN [err |-> "TaskNotFound", db |-> db]
        ELSE IF db.tasks[taskID].creator_id # actorID THEN [err |-> "NotTaskCreator", db |-> db]
        ELSE IF CountUsersByIDs(db, ids, db.tasks[taskID].organization_id) # Len(ids)
        THEN [err |-> "InvalidTaskAssignee", db |-> db]
        ELSE [err |-> "ok", db |-> RepoUnassignUsers(db, taskID, ids)]

\* TaskService.UnassignUsers: [err, db]
UnassignUsers(db, taskID, actorID, userIDs) ==
    IF Len(userIDs) = 0 THEN [err |-> "NoUserIDsProvided", db |-> db]
    ELSE IF ~FindByID(db, taskID) THEN [err |-> "TaskNotFound", db |-> db]
    ELSE IF NotTaskCreator(db, taskID, actorID) THEN [err |-> "NotTaskCreator", db |-> db]
    ELSE [err |-> "ok", db |-> RepoUnassignUsers(db, taskID, uniqueUint64(userIDs))]

\* TaskService.ToggleTaskStatus: [err, db]
ToggleTaskStatus(db, taskID, actorID) ==
    IF ~FindByID(db, taskID) THEN [err |-> "TaskNotFound", db |-> db]
    ELSE IF ~TogglePermitted(db, taskID, actorID) THEN [err |-> "TaskPermissionDenied", db |-> db]
    ELSE [err |-> "ok", db |-> [db EXCEPT !.tasks[taskID].status = Toggled(@)]]

\* ---- OrganizationService ----

\* variant of CreateOrganization that adds the creator with role member (C22
\* must reject it)
CreateOrganization_AsMember(db, name, ownerID, generated, fault) ==
    LET id == NextID(db.orgs, OrgIDs)
        created == [db EXCEPT !.orgs[id] = [state |-> "live",
                                            invite_code |-> GenerateInviteCode(id)]]
    IN  IF TrimSpace(name) = "" THEN [err |-> "InvalidOrganizationName", db |-> db, id |-> NoID]
        ELSE IF ~generated THEN [err |-> "InviteCodeGenerationFailed", db |-> db, id |-> NoID]
        ELSE IF fault = "create" \/ CodeTaken(db, GenerateInviteCode(id), id)
        THEN [err |-> "failed to create organization", db |-> db, id |-> NoID]
        ELSE IF fault = "member"
        THEN [err |-> "failed to add owner to organization", db |-> created, id |-> id]
        ELSE [err |-> "ok", db |-> [created EXCEPT !.members[id][ownerID] = RoleMember], id |-> id]

\* OrganizationService.CreateOrganization: [err, db, id].  generated is FALSE
\* when the code generator fails; fault names the repository write that fails
\* ("none", "create" or "member"; "create" includes a collision on the unique
\* index of invite_code).
CreateOrganization(db, name, ownerID, generated, fault) ==
    LET id == NextID(db.orgs, OrgIDs)
        created == [db EXCEPT !.orgs[id] = [state |-> "live",
                                            invite_code |-> GenerateInviteCode(id)]]
    IN  IF TrimSpace(name) = "" THEN [err |-> "InvalidOrganizationName", db |-> db, id |-> NoID]
        ELSE IF ~generated THEN [err |-> "InviteCodeGenerationFailed", db |-> db, id |-> NoID]
        ELSE IF fault = "create" \/ CodeTaken(db, GenerateInviteCode(id), id)
        THEN [err |-> "failed to create organization", db |-> db, id |-> NoID]
        ELSE IF fault = "member"
        THEN [err |-> "failed to add owner to organization", db |-> created, id |-> id]
        ELSE [err |-> "ok", db |-> [created EXCEPT !.members[id][ownerID] = RoleOwner], id |-> id]

\* OrganizationService.DeleteOrganization: [err, db]
DeleteOrganization(db, orgID) ==
    IF ~OrgFindByID(db, orgID) THEN [err |-> "OrganizationNotFound", db |-> db]
    ELSE [err |-> "ok", db |-> OrgRepoDelete(db, orgID)]

\* variant of JoinOrganizationByInvite without the membership lookup: the
\* row is written over (C12 must reject it)
JoinOrganizationByInvite_Overwriting(db, userID, inviteCode) ==
    LET org == FindByInviteCode(db, inviteCode)
    IN  IF org = NoID THEN [err |-> "InvalidInviteCode", db |-> db, id |-> NoID]
        ELSE [err |-> "ok", db |-> [db EXCEPT !.members[org][userID] = RoleMember], id |-> org]

\* OrganizationService.JoinOrganizationByInvite: [err, db, id]
JoinOrganizationByInvite(db, userID, inviteCode) ==
    LET org == FindByInviteCode(db, inviteCode)
    IN  IF org = NoID THEN [err |-> "InvalidInviteCode", db |-> db, id |-> NoID]
        ELSE IF FindMember(db, org, userID) # NoRow
        THEN [err |-> "AlreadyOrganizationMember", db |-> db, id |-> org]
        ELSE [err |-> "ok", db |-> [db EXCEPT !.members[org][userID] = RoleMember], id |-> org]

\* variant of RegenerateInviteCode that returns the new code without saving
\* it (C13 must reject it)
RegenerateInviteCode_NotSaved(db, orgID, code) ==
    IF ~OrgFindByID(db, orgID) THEN [err |-> "OrganizationNotFound", db |-> db]
    ELSE IF code = NoID THEN [err |-> "InviteCodeGenerationFailed", db |-> db]
    ELSE [err |-> "ok", db |-> db]

\* OrganizationService.RegenerateInviteCode: [err, db].  code is what the
\* generator returned, NoID when it failed.
RegenerateInviteCode(db, orgID, code) ==
    IF ~OrgFindByID(db, orgID) THEN [err |-> "OrganizationNotFound", db |-> db]
    ELSE IF code = NoID THEN [err |-> "InviteCodeGenerationFailed", db |-> db]
    ELSE IF CodeTaken(db, code, orgID) THEN [err |-> "failed to update invite code", db |-> db]
    ELSE [err |-> "ok", db |-> [db EXCEPT !.orgs[orgID].invite_code = code]]

\* OrganizationService.ListOrganizationsForUser: the user's membership rows
ListOrganizationsForUser(db, userID) ==
    {[organization_id |-> o, role |-> db.members[o][userID]] : o \in ListMembersByUserID(db, userID)}

\* OrganizationService.RemoveMember: [err, db]
RemoveMember(db, orgID, actorID, targetID) ==
    IF targetID = actorID THEN [err |-> "CannotRemoveYourself", db |-> db]
    ELSE IF FindMember(db, orgID, targetID) = NoRow
    THEN [err |-> "OrganizationMemberNotFound", db |-> db]
    ELSE [err |-> "ok", db |-> [db EXCEPT !.members[orgID][targetID] = NoRow]]

\* ---- HTTP layer of DELETE /organizations/:id/members/:user_id ----

\* a string is the sequence of its code points; the :user_id parameter is the
\* decimal numeral of the target's ID
RECURSIVE Decimal(_)
Decimal(n) == IF n < 10 THEN <<48 + n>> ELSE Append(Decimal(n \div 10), 48 + (n % 10))

\* Go's string(rune(id)): the one-character string of code point id
RuneString(id) == <<id>>

\* RequireOrganizationAccess then RequireOrganizationOwner: the status they
\* abort with, "ok" when the handler runs
RequireOrganizationOwner(db, orgID, userID) ==
    IF ~OrgFindByID(db, orgID) \/ FindMember(db, orgID, userID) = NoRow THEN "404"
    ELSE IF FindMember(db, orgID, userID) # RoleOwner THEN "403"
    ELSE "ok"

\* what a gate answers: the status and error it aborts with, or next (the
\* handler runs) with status 0
Abort(status, error) == [status |-> status, error |-> error, next |-> FALSE]
Proceed == [status |-> 0, error |-> "", next |-> TRUE]

\* middleware.RequireTaskAccess for an authenticated user and a numeric :id
RequireTaskAccess_Forbidding(db, taskID, userID) ==
    IF ~FindByID(db, taskID) THEN Abort(404, "Task not found")
    ELSE IF FindMember(db, db.tasks[taskID].organization_id, userID) = NoRow
    THEN Abort(403, "Forbidden")
    ELSE Proceed

RequireTaskAccess(db, taskID, userID) ==
    IF ~FindByID(db, taskID) THEN Abort(404, "Task not found")
    ELSE IF FindMember(db, db.tasks[taskID].organization_id, userID) = NoRow
    THEN Abort(404, "Task not found")
    ELSE Proceed

\* middleware.RequireOrganizationAccess for an authenticated user and a
\* numeric :id
RequireOrganizationAccess(db, orgID, userID) ==
    IF ~OrgFindByID(db, orgID) THEN Abort(404, "Organization not found")
    ELSE IF FindMember(db, orgID, userID) = NoRow THEN Abort(404, "Organization not found")
    ELSE Proceed

\* OrganizationHandler.RemoveMember behind its middleware: [err, db], err the
\* status when it is not 200
HandlerRemoveMember(db, orgID, currentUserID, targetUserID) ==
    IF RequireOrganizationOwner(db, orgID, currentUserID) # "ok"
    THEN [err |-> RequireOrganizationOwner(db, orgID, currentUserID), db |-> db]
    ELSE IF Decimal(targetUserID) = RuneString(currentUserID)
    THEN [err |-> "400", db |-> db]
    ELSE [err |-> "ok", db |-> [db EXCEPT !.members[orgID][targetUserID] = NoRow]]

\* ---- HTTP layer of DELETE /organizations/:id ----

\* the three statements of OrganizationHandler.DeleteOrganization, each run
\* on the connection pool outside any transaction
HandlerDeleteTasks(db, orgID) ==
    [db EXCEPT !.tasks = [t \in TaskIDs |->
                            IF @[t].state = "live" /\ @[t].organization_id = orgID
                            THEN [@[t] EXCEPT !.state = "deleted"] ELSE @[t]]]

HandlerDeleteMembers(db, orgID) == [db EXCEPT !.members[orgID] = [u \in UserIDs |-> NoRow]]

HandlerDeleteOrg(db, orgID) == [db EXCEPT !.orgs[orgID].state = "deleted"]

\* no DeleteOrganization request is between two of its statements
Idle == [org |-> NoID, step |-> "idle"]

\* ---- signup ----

\* constants.MinPasswordLength, and the min=8 of the legacy request binding
MinPasswordLength == 8
PasswordLengths == {MinPasswordLength - 1, MinPasswordLength}

\* SignupInput.Username / SignupRequest.Email
UsernameInputs == {"", " ", "a", "b", "c"}

\* the step of a signup that fails, if any: the hash or one of the inserts
SignupFaults == {"none", "hash", "user", "org", "member"}

\* GormUserRepository.FindByUsername finds a row
FindByUsername(db, username) == \E u \in db.users : db.usernames[u] = username

\* the ID the next row of users gets, NoID when the model's IDs are used up
NextUserID(db) ==
    IF db.users = UserIDs THEN NoID
    ELSE CHOOSE u \in UserIDs \ db.users : \A v \in UserIDs \ db.users : u <= v

\* tx.Create(user) / tx.Create(org) / tx.Create(member)
InsertUser(db, id, username) ==
    [db EXCEPT !.users = @ \cup {id}, !.usernames[id] = username]

InsertOrganization(db, id) ==
    [db EXCEPT !.orgs[id] = [state |-> "live", invite_code |-> GenerateInviteCode(id)]]

InsertOwner(db, orgID, userID) == [db EXCEPT !.members[orgID][userID] = RoleOwner]

\* GormUserRepository.CreateWithPersonalOrganization: the three inserts in
\* one transaction, rolled back by the first that fails: [err, db]
CreateWithPersonalOrganization(db, username, fault) ==
    LET uid == NextUserID(db)
        oid == NextID(db.orgs, OrgIDs)
    IN  IF fault = "user" THEN [err |-> "ErrCreateUser", db |-> db]
        ELSE IF fault = "org" \/ CodeTaken(db, GenerateInviteCode(oid), oid)
        THEN [err |-> "ErrCreateOrganization", db |-> db]
        ELSE IF fault = "member" THEN [err |-> "ErrCreateOrganizationMember", db |-> db]
        ELSE [err |-> "ok",
              db |-> InsertOwner(InsertOrganization(InsertUser(db, uid, username), oid), oid, uid)]

\* AuthService.Signup: [err, db]
Signup(db, username, passwordLen, generated, fault) ==
    LET name == TrimSpace(username)
        r == CreateWithPersonalOrganization(db, name, fault)
    IN  IF name = "" THEN [err |-> "username is required", db |-> db]
        ELSE IF passwordLen < MinPasswordLength THEN [err |-> "PasswordTooShort", db |-> db]
        ELSE IF FindByUsername(db, name) THEN [err |-> "UsernameTaken", db |-> db]
        ELSE IF fault = "hash" THEN [err |-> "FailedToHashPassword", db |-> db]
        ELSE IF ~generated THEN [err |-> "FailedToCreateOrg", db |-> db]
        ELSE IF r.err = "ErrCreateUser" THEN [err |-> "FailedToCreateUser", db |-> r.db]
        ELSE IF r.err = "ErrCreateOrganization" THEN [err |-> "FailedToCreateOrg", db |-> r.db]
        ELSE IF r.err = "ErrCreateOrganizationMember"
        THEN [err |-> "FailedToAddMember", db |-> r.db]
        ELSE r

\* the binding of SignupRequest: email `required,email`, password `min=8`
BindSignupRequest(email, passwordLen) ==
    TrimSpace(email) # "" /\ passwordLen >= MinPasswordLength

\* the legacy AuthHandler.Signup of POST /api/auth/signup: every statement
\* runs on the connection pool and commits by itself; [err, db], err the
\* status when it is not 201
HandlerSignup(db, email, passwordLen, generated, fault) ==
    LET uid == NextUserID(db)
        oid == NextID(db.orgs, OrgIDs)
        withUser == InsertUser(db, uid, email)
        withOrg == InsertOrganization(withUser, oid)
    IN  IF ~BindSignupRequest(email, passwordLen) THEN [err |-> "400", db |-> db]
        ELSE IF FindByUsername(db, email) THEN [err |-> "409", db |-> db]
        ELSE IF fault \in {"hash", "user"} THEN [err |-> "500", db |-> db]
        ELSE IF ~generated THEN [err |-> "500", db |-> withUser]
        ELSE IF fault = "org" \/ CodeTaken(db, GenerateInviteCode(oid), oid)
        THEN [err |-> "500", db |-> withUser]
        ELSE IF fault = "member" THEN [err |-> "500", db |-> withOrg]
        ELSE [err |-> "ok", db |-> InsertOwner(withOrg, oid, uid)]

\* ---- AI extraction ----

\* constants.MaxAIGeneratedTasks
MaxAIGeneratedTasks == 3

\* times are hours on one clock; a nil *time.Time is NoTime
NoTime == -1
CallTimes == {25, 26}
DueDates == {NoTime, 0, 1, 2, 50}

\* services.GeneratedTask
GeneratedTask(title, description, due_date) ==
    [title |-> title, description |-> description, due_date |-> due_date]

\* what the extractor can return as one candidate: blank titles, one title
\* with every due date, one more title
Candidates ==
    {GeneratedTask("", "", NoTime), GeneratedTask(" ", "d", 0), GeneratedTask("b", "", NoTime)}
        \cup {GeneratedTask("a", "d", due) : due \in DueDates}

CandidateLists == UNION {[1..n -> Candidates] : n \in 0..(MaxAIGeneratedTasks + 1)}

\* time.Time.Before
Before(t, u) == t < u

\* the loop of GenerateTasks over aiTasks: validTasks
RECURSIVE validTasks(_, _)
validTasks_UpToCutoff(aiTasks, cutoff) ==
    IF aiTasks = <<>> THEN <<>>
    ELSE LET aiTask == Head(aiTasks)
             rest == validTasks(Tail(aiTasks), cutoff)
         IN  IF TrimSpace(aiTask.title) = "" THEN rest
             ELSE IF aiTask.due_date # NoTime /\ ~Before(cutoff, aiTask.due_date)
             THEN <<[aiTask EXCEPT !.due_date = NoTime]>> \o rest
             ELSE <<aiTask>> \o rest

validTasks(aiTasks, cutoff) ==
    IF aiTasks = <<>> THEN <<>>
    ELSE LET aiTask == Head(aiTasks)
             rest == validTasks(Tail(aiTasks), cutoff)
         IN  IF TrimSpace(aiTask.title) = "" THEN rest
             ELSE IF aiTask.due_date # NoTime /\ Before(aiTask.due_date, cutoff)
             THEN <<[aiTask EXCEPT !.due_date = NoTime]>> \o rest
             ELSE <<aiTask>> \o rest

\* what GenerateTasks returns: the error, the tasks, the database it leaves,
\* and whether it asked the extractor
Generated(err, valid, db, asked) == [err |-> err, tasks |-> valid, db |-> db, asked |-> asked]

\* TaskService.GenerateTasks(ctx, input) with the service's aiService set or
\* nil, the extractor failing or returning aiTasks, and time.Now() = now
GenerateTasks_FilteringFirst(db, configured, failed, aiTasks, now) ==
    LET valid == validTasks(aiTasks, now - 24)
    IN  IF ~configured THEN Generated("AIServiceNotConfigured", <<>>, db, FALSE)
        ELSE IF failed THEN Generated("failed to generate tasks", <<>>, db, TRUE)
        ELSE IF Len(aiTasks) = 0 THEN Generated("AINoTasksGenerated", <<>>, db, TRUE)
        ELSE IF Len(valid) > MaxAIGeneratedTasks
        THEN Generated("AI generated too many tasks", <<>>, db, TRUE)
        ELSE IF Len(valid) = 0 THEN Generated("AINoValidTasks", <<>>, db, TRUE)
        ELSE Generated("ok", valid, db, TRUE)

GenerateTasks_Persisting(db, configured, failed, aiTasks, now) ==
    LET valid == validTasks(aiTasks, now - 24)
        id == NextID(db.tasks, TaskIDs)
        saved == IF id = NoID THEN db
                 ELSE [db EXCEPT !.tasks[id] = [state |-> "live", status |-> TaskStatusTodo,
                                                organization_id |-> NoID, creator_id |-> NoID]]
    IN  IF ~configured THEN Generated("AIServiceNotConfigured", <<>>, db, FALSE)
        ELSE IF failed THEN Generated("failed to generate tasks", <<>>, db, TRUE)
        ELSE IF Len(aiTasks) = 0 THEN Generated("AINoTasksGenerated", <<>>, db, TRUE)
        ELSE IF Len(aiTasks) > MaxAIGeneratedTasks
        THEN Generated("AI generated too many tasks", <<>>, db, TRUE)
        ELSE IF Len(valid) = 0 THEN Generated("AINoValidTasks", <<>>, db, TRUE)
        ELSE Generated("ok", valid, saved, TRUE)

GenerateTasks(db, configured, failed, aiTasks, now) ==
    LET valid == validTasks(aiTasks, now - 24)
    IN  IF ~configured THEN Generated("AIServiceNotConfigured", <<>>, db, FALSE)
        ELSE IF failed THEN Generated("failed to generate tasks", <<>>, db, TRUE)
        ELSE IF Len(aiTasks) = 0 THEN Generated("AINoTasksGenerated", <<>>, db, TRUE)
        ELSE IF Len(aiTasks) > MaxAIGeneratedTasks
        THEN Generated("AI generated too many tasks", <<>>, db, TRUE)
        ELSE IF Len(valid) = 0 THEN Generated("AINoValidTasks", <<>>, db, TRUE)
        ELSE Generated("ok", valid, db, TRUE)

\* a GenerateTasks call: its inputs, and once step is "done" what it returned
Generation(configured, failed, candidates, now) ==
    [configured |-> configured, failed |-> failed, candidates |-> candidates, now |-> now,
     step |-> "pending", err |-> "", out |-> <<>>, asked |-> FALSE]

NoGeneration == [Generation(FALSE, FALSE, <<>>, 0) EXCEPT !.step = "idle"]

\* ---- UpdateTask on the whole row ----

\* the columns of models.Task that the table tasks of the model leaves out
TaskDetails(title, description, due_date) ==
    [title |-> title, description |-> description, due_date |-> due_date]

NoDetails == TaskDetails("", "", NoTime)

\* the rows a task can have when UpdateTask finds it
DetailRows ==
    {TaskDetails(title, description, due) :
        title \in {"a", "b"}, description \in {"", "d"}, due \in {NoTime, 1, 2}}

\* UpdateTaskInput: Nil for a nil *string, NoTime for a nil *time.Time
UpdateTaskInput(title, description, status, dueDate, clearDueDate) ==
    [Title |-> title, Description |-> description, Status |-> status, DueDate |-> dueDate,
     ClearDueDate |-> clearDueDate]

UpdateTaskInputs ==
    {UpdateTaskInput(title, description, status, dueDate, clearDueDate) :
        title \in {Nil, "", "a", "b"}, description \in {Nil, "", "d"},
        status \in UpdateStatusInputs, dueDate \in {NoTime, 1, 2}, clearDueDate \in BOOLEAN}

\* TaskService.UpdateTask with every column of the row: [err, db, rows].
\* failed: taskRepo.Update returns a storage error
UpdateTaskRow_ValueFirst(db, rows, taskID, input, failed) ==
    LET r == UpdateTask(db, taskID, input.Title, input.Status)
        task == rows[taskID]
        edited ==
            TaskDetails(IF input.Title # Nil THEN input.Title ELSE task.title,
                        IF input.Description # Nil THEN input.Description ELSE task.description,
                        IF input.DueDate # NoTime THEN input.DueDate
                        ELSE IF input.ClearDueDate THEN NoTime
                        ELSE task.due_date)
    IN  IF r.err # "ok" THEN [err |-> r.err, db |-> db, rows |-> rows]
        ELSE IF failed THEN [err |-> "failed to update task", db |-> db, rows |-> rows]
        ELSE [err |-> "ok", db |-> r.db, rows |-> [rows EXCEPT ![taskID] = edited]]

UpdateTaskRow(db, rows, taskID, input, failed) ==
    LET r == UpdateTask(db, taskID, input.Title, input.Status)
        task == rows[taskID]
        edited ==
            TaskDetails(IF input.Title # Nil THEN input.Title ELSE task.title,
                        IF input.Description # Nil THEN input.Description ELSE task.description,
                        IF input.ClearDueDate THEN NoTime
                        ELSE IF input.DueDate # NoTime THEN input.DueDate
                        ELSE task.due_date)
    IN  IF r.err # "ok" THEN [err |-> r.err, db |-> db, rows |-> rows]
        ELSE IF failed THEN [err |-> "failed to update task", db |-> db, rows |-> rows]
        ELSE [err |-> "ok", db |-> r.db, rows |-> [rows EXCEPT ![taskID] = edited]]

\* an UpdateTask call: its inputs, and once step is "done" its error
Update(taskID, input, failed) ==
    [task |-> taskID, input |-> input, failed |-> failed, step |-> "pending", err |-> ""]

NoUpdate == [Update(NoID, UpdateTaskInput(Nil, Nil, Nil, NoTime, FALSE), FALSE)
                EXCEPT !.step = "idle"]

\* ---- ListTasks with the due-today window ----

\* the local day: 24 hours, from midnight
HoursPerDay == 24

\* time.Date(now.Year(), now.Month(), now.Day(), 0, 0, 0, 0, now.Location())
StartOfDay(now) == now - (now % HoursPerDay)

\* SQL's due_date >= from and due_date < to: not true of a NULL due_date
DueDateFrom(due_date, from) == due_date # NoTime /\ due_date >= from

DueDateTo_Inclusive(due_date, to) == due_date # NoTime /\ due_date <= to

DueDateTo(due_date, to) == due_date # NoTime /\ due_date < to

\* GormTaskRepository.List with filter.DueDateFrom and filter.DueDateTo
\* (NoTime when nil), rows the due dates of the tasks
RepoListDue(db, rows, organizationIDs, status, assignedUserID, from, to) ==
    {t \in RepoList(db, organizationIDs, status, assignedUserID) :
        /\ (from # NoTime => DueDateFrom(rows[t].due_date, from))
        /\ (to # NoTime => DueDateTo(rows[t].due_date, to))}

\* TaskService.ListTasks with input.DueToday, time.Now() = now: [err, tasks]
ListTasksDue(db, rows, userID, organizationID, assignedToMe, status, dueToday, now) ==
    LET r == resolveAccessibleOrganizationIDs(db, userID, organizationID)
        startOfDay == StartOfDay(now)
        endOfDay == startOfDay + HoursPerDay
    IN  IF r.err # "ok" THEN [err |-> r.err, tasks |-> {}]
        ELSE IF r.ids = {} THEN [err |-> "ok", tasks |-> {}]
        ELSE [err |-> "ok",
              tasks |-> RepoListDue(db, rows, r.ids, status,
                                    IF assignedToMe THEN userID ELSE NoID,
                                    IF dueToday THEN startOfDay ELSE NoTime,
                                    IF dueToday THEN endOfDay ELSE NoTime)]

\* a ListTasks call: its inputs, and once step is "done" what it returned
Listing(userID, dueToday, now) ==
    [user |-> userID, dueToday |-> dueToday, now |-> now, step |-> "pending", err |-> "",
     tasks |-> {}]

NoListing == [Listing(NoID, FALSE, 0) EXCEPT !.step = "idle"]

\* the times of the calls and the due dates of the tasks: around two midnights
ListTimes == {24, 25, 47, 48}
ListDueDates == {NoTime, 23, 24, 30, 47, 48}

\* ---- requests running side by side ----

\* the requests the server runs at the same time
Procs == 1..NumProcs

\* a service call between its read and its write: the method, its inputs and
\* the row it holds in memory; step "done" once it has returned
InFlight(op, step, actor, task, org, ids, row) ==
    [op |-> op, step |-> step, actor |-> actor, task |-> task, org |-> org, ids |-> ids,
     row |-> row]

Resting == InFlight("none", "idle", NoID, NoID, NoID, <<>>, NoTask)

\* db.Save(task) on a row that was soft-deleted after task was read: the
\* UPDATE ... WHERE deleted_at IS NULL matches no row, and Save then inserts
\* the struct, which the primary key rejects, or upserts it, deleted_at NULL
\* included, depending on the GORM release
SaveOutcomes == {"rejected", "restored"}

\* variant of AddMember that writes over the row of the pair (C29 must
\* reject it)
AddMember_Upserting(db, orgID, userID, role) ==
    [err |-> "ok", db |-> [db EXCEPT !.members[orgID][userID] = role]]

\* GormOrganizationRepository.AddMember: db.Create(member); the primary key
\* (organization_id, user_id) rejects a second row of the pair
AddMember(db, orgID, userID, role) ==
    IF db.members[orgID][userID] # NoRow
    THEN [err |-> "failed to add member to organization", db |-> db]
    ELSE [err |-> "ok", db |-> [db EXCEPT !.members[orgID][userID] = role]]

\* GormTaskRepository.Update(task): Save writes every column of the struct
RepoUpdate(db, taskID, row, outcome) ==
    IF db.tasks[taskID].state = "live" \/ outcome = "restored"
    THEN [err |-> "ok", db |-> [db EXCEPT !.tasks[taskID] = row]]
    ELSE [err |-> "failed to update task", db |-> db]

\* ---- the state machine ----

\* the record of a call: the method, its inputs and the error it returned
\* (task, org: the row a creating call made)
Call(op, actor, org, task, ids, err) ==
    [op |-> op, actor |-> actor, org |-> org, task |-> task, ids |-> ids, err |-> err]

NoCall == Call("none", NoID, NoID, NoID, <<>>, "ok")

\* a call returned r: the tables are as it left them.  A call that returned
\* an error without writing anything leaves no trace, not in last either.
Written(r, call) ==
    /\ users' = r.db.users
    /\ orgs' = r.db.orgs
    /\ members' = r.db.members
    /\ tasks' = r.db.tasks
    /\ assignments' = r.db.assignments
    /\ usernames' = r.db.usernames
    /\ last' = IF r.err = "ok" \/ r.db # DB THEN call ELSE last

Return(r, call) == Written(r, call) /\ UNCHANGED <<cascade, generation, details, update, listing, inflight>>

Init ==
    /\ users = UserRows
    /\ orgs = [o \in OrgIDs |-> NoOrg]
    /\ members = [o \in OrgIDs |-> [u \in UserIDs |-> NoRow]]
    /\ tasks = [t \in TaskIDs |-> NoTask]
    /\ assignments = [t \in TaskIDs |-> NoAssignments]
    /\ last = NoCall
    /\ cascade = Idle
    /\ inflight = [p \in Procs |-> Resting]
    /\ listing = NoListing
    /\ usernames = [u \in UserIDs |-> IF u \in UserRows THEN ToString(u) ELSE Nil]
    /\ generation = NoGeneration
    /\ details = [t \in TaskIDs |-> NoDetails]
    /\ update = NoUpdate

CallCreateTask(title, status, organizationID, creatorID, fault) ==
    LET r == CreateTask(DB, title, status, organizationID, creatorID, fault)
    IN  /\ NextID(tasks, TaskIDs) # NoID
        /\ Return(r, Call("CreateTask", creatorID, organizationID, r.id, <<>>, r.err))

CallUpdateTask(taskID, title, status) ==
    LET r == UpdateTask(DB, taskID, title, status)
    IN  Return(r, Call("UpdateTask", NoID, NoID, taskID, <<>>, r.err))

CallDeleteTask(taskID, actorID) ==
    LET r == DeleteTask(DB, taskID, actorID)
    IN  Return(r, Call("DeleteTask", actorID, NoID, taskID, <<>>, r.err))

CallAssignUsers(taskID, actorID, userIDs) ==
    LET r == AssignUsers(DB, taskID, actorID, userIDs)
    IN  Return(r, Call("AssignUsers", actorID, NoID, taskID, userIDs, r.err))

CallUnassignUsers(taskID, actorID, userIDs) ==
    LET r == UnassignUsers(DB, taskID, actorID, userIDs)
    IN  Return(r, Call("UnassignUsers", actorID, NoID, taskID, userIDs, r.err))

CallToggleTaskStatus(taskID, actorID) ==
    LET r == ToggleTaskStatus(DB, taskID, actorID)
    IN  Return(r, Call("ToggleTaskStatus", actorID, NoID, taskID, <<>>, r.err))

CallCreateOrganization(name, ownerID, generated, fault) ==
    LET r == CreateOrganization(DB, name, ownerID, generated, fault)
    IN  /\ NextID(orgs, OrgIDs) # NoID
        /\ Return(r, Call("CreateOrganization", ownerID, r.id, NoID, <<>>, r.err))

CallDeleteOrganization(orgID) ==
    LET r == DeleteOrganization(DB, orgID)
    IN  Return(r, Call("DeleteOrganization", NoID, orgID, NoID, <<>>, r.err))

CallJoinOrganizationByInvite(userID, inviteCode) ==
    LET r == JoinOrganizationByInvite(DB, userID, inviteCode)
    IN  Return(r, Call("JoinOrganizationByInvite", userID, r.id, NoID, <<>>, r.err))

CallRemoveMember(orgID, actorID, targetID) ==
    LET r == RemoveMember(DB, orgID, actorID, targetID)
    IN  Return(r, Call("RemoveMember", actorID, orgID, NoID, <<targetID>>, r.err))

\* ids records the code replaced and the code set
CallRegenerateInviteCode(orgID, code) ==
    LET r == RegenerateInviteCode(DB, orgID, code)
    IN  Return(r, Call("RegenerateInviteCode", NoID, orgID, NoID,
                       <<orgs[orgID].invite_code, code>>, r.err))

Next ==
    \/ \E title \in TitleInputs, status \in StatusInputs, o \in OrgIDs, u \in users,
          fault \in StorageFaults :
          CallCreateTask(title, status, o, u, fault)
    \/ \E t \in TaskIDs, title \in TitleInputs \cup {Nil}, status \in UpdateStatusInputs :
          CallUpdateTask(t, title, status)
    \/ \E t \in TaskIDs, u \in users : CallDeleteTask(t, u)
    \/ \E t \in TaskIDs, u \in users, ids \in IDLists : CallAssignUsers(t, u, ids)
    \/ \E t \in TaskIDs, u \in users, ids \in IDLists : CallUnassignUsers(t, u, ids)
    \/ \E t \in TaskIDs, u \in users : CallToggleTaskStatus(t, u)
    \/ \E name \in NameInputs, u \in users, generated \in BOOLEAN,
          fault \in {"none", "create", "member"} :
          CallCreateOrganization(name, u, generated, fault)
    \/ \E o \in OrgIDs : CallDeleteOrganization(o)
    \/ \E u \in users, code \in OrgIDs : CallJoinOrganizationByInvite(u, code)
    \/ \E o \in OrgIDs, u \in users, target \in users : CallRemoveMember(o, u, target)

Spec == Init /\ [][Next]_vars

CallHandlerRemoveMember(orgID, currentUserID, targetUserID) ==
    LET r == HandlerRemoveMember(DB, orgID, currentUserID, targetUserID)
    IN  Return(r, Call("HandlerRemoveMember", currentUserID, orgID, NoID,
                       <<targetUserID>>, r.err))

\* OrganizationHandler.DeleteOrganization, first statement (a failure of it
\* changes nothing): the caller passed RequireOrganizationOwner
HandlerDeleteOrganizationTasks(orgID, currentUserID) ==
    /\ cascade = Idle
    /\ RequireOrganizationOwner(DB, orgID, currentUserID) = "ok"
    /\ tasks' = HandlerDeleteTasks(DB, orgID).tasks
    /\ cascade' = [org |-> orgID, step |-> "tasks"]
    /\ last' = Call("HandlerDeleteOrganization", currentUserID, orgID, NoID, <<>>, "ok")
    /\ UNCHANGED <<users, orgs, members, assignments, usernames, generation, details, update, listing, inflight>>

\* second statement: the membership rows, or a storage error (500)
HandlerDeleteOrganizationMembers(failed) ==
    /\ cascade.step = "tasks"
    /\ members' = IF failed THEN members ELSE HandlerDeleteMembers(DB, cascade.org).members
    /\ cascade' = IF failed THEN Idle ELSE [cascade EXCEPT !.step = "members"]
    /\ last' = [last EXCEPT !.err = IF failed THEN "500" ELSE "ok"]
    /\ UNCHANGED <<users, orgs, tasks, assignments, usernames, generation, details, update, listing, inflight>>

\* third statement: the organization row, or a storage error (500)
HandlerDeleteOrganizationOrg(failed) ==
    /\ cascade.step = "members"
    /\ orgs' = IF failed THEN orgs ELSE HandlerDeleteOrg(DB, cascade.org).orgs
    /\ cascade' = Idle
    /\ last' = Call("HandlerDeleteOrganization", NoID, cascade.org, NoID, <<>>,
                    IF failed THEN "500" ELSE "ok")
    /\ UNCHANGED <<users, members, tasks, assignments, usernames, generation, details, update, listing, inflight>>

\* organizations with tasks, deleted through the service or through the HTTP
\* route, whose statements interleave with the other requests
NextCascade ==
    \/ \E name \in NameInputs, u \in users, generated \in BOOLEAN,
          fault \in {"none", "create", "member"} :
          CallCreateOrganization(name, u, generated, fault)
    \/ \E u \in users, code \in OrgIDs : CallJoinOrganizationByInvite(u, code)
    \/ \E title \in TitleInputs, status \in StatusInputs, o \in OrgIDs, u \in users,
          fault \in StorageFaults :
          CallCreateTask(title, status, o, u, fault)
    \/ \E o \in OrgIDs : CallDeleteOrganization(o)
    \/ \E o \in OrgIDs, u \in users : HandlerDeleteOrganizationTasks(o, u)
    \/ \E failed \in BOOLEAN : HandlerDeleteOrganizationMembers(failed)
    \/ \E failed \in BOOLEAN : HandlerDeleteOrganizationOrg(failed)

SpecCascade == Init /\ [][NextCascade]_vars

\* the organization operations, invite codes rotating: the service and the
\* HTTP route that removes a member
NextOrg ==
    \/ \E name \in NameInputs, u \in users, generated \in BOOLEAN,
          fault \in {"none", "create", "member"} :
          CallCreateOrganization(name, u, generated, fault)
    \/ \E o \in OrgIDs : CallDeleteOrganization(o)
    \/ \E u \in users, code \in InviteCodes : CallJoinOrganizationByInvite(u, code)
    \/ \E o \in OrgIDs, code \in InviteCodes \cup {NoID} : CallRegenerateInviteCode(o, code)
    \/ \E o \in OrgIDs, u \in users, target \in users : CallRemoveMember(o, u, target)
    \/ \E o \in OrgIDs, u \in users, target \in users : CallHandlerRemoveMember(o, u, target)

SpecOrg == Init /\ [][NextOrg]_vars

\* a signup is modelled while an ID is left for its user and its organization
CanSignup == NextUserID(DB) # NoID /\ NextID(orgs, OrgIDs) # NoID

CallSignup(username, passwordLen, generated, fault) ==
    LET r == Signup(DB, username, passwordLen, generated, fault)
    IN  /\ CanSignup
        /\ Return(r, Call("Signup", NextUserID(DB), NextID(orgs, OrgIDs), NoID, <<>>, r.err))

CallHandlerSignup(email, passwordLen, generated, fault) ==
    LET r == HandlerSignup(DB, email, passwordLen, generated, fault)
    IN  /\ CanSignup
        /\ Return(r, Call("HandlerSignup", NextUserID(DB), NextID(orgs, OrgIDs), NoID, <<>>,
                          r.err))

\* the database before the first signup
InitSignup ==
    /\ users = {}
    /\ orgs = [o \in OrgIDs |-> NoOrg]
    /\ members = [o \in OrgIDs |-> [u \in UserIDs |-> NoRow]]
    /\ tasks = [t \in TaskIDs |-> NoTask]
    /\ assignments = [t \in TaskIDs |-> NoAssignments]
    /\ last = NoCall
    /\ cascade = Idle
    /\ inflight = [p \in Procs |-> Resting]
    /\ listing = NoListing
    /\ usernames = [u \in UserIDs |-> Nil]
    /\ generation = NoGeneration
    /\ details = [t \in TaskIDs |-> NoDetails]
    /\ update = NoUpdate

\* accounts opened through the service or through the HTTP route, and their
\* users joining each other's organizations
NextSignup ==
    \/ \E username \in UsernameInputs, n \in PasswordLengths, generated \in BOOLEAN,
          fault \in SignupFaults :
          CallSignup(username, n, generated, fault)
    \/ \E email \in UsernameInputs, n \in PasswordLengths, generated \in BOOLEAN,
          fault \in SignupFaults :
          CallHandlerSignup(email, n, generated, fault)
    \/ \E u \in users, code \in OrgIDs : CallJoinOrganizationByInvite(u, code)

SpecSignup == InitSignup /\ [][NextSignup]_vars

\* GenerateTasks runs on the inputs of the call g
Generate(g) ==
    LET r == GenerateTasks(DB, g.configured, g.failed, g.candidates, g.now)
    IN  /\ Written(r, Call("GenerateTasks", NoID, NoID, NoID, <<>>, r.err))
        /\ generation' = [g EXCEPT !.step = "done", !.err = r.err, !.out = r.tasks,
                                  !.asked = r.asked]
        /\ UNCHANGED <<cascade, details, update, listing, inflight>>

CallGenerateTasks == generation.step = "pending" /\ Generate(generation)

\* GenerateTasks as a function of its inputs: one call on each of them
InitGenerate ==
    /\ users = UserRows
    /\ orgs = [o \in OrgIDs |-> NoOrg]
    /\ members = [o \in OrgIDs |-> [u \in UserIDs |-> NoRow]]
    /\ tasks = [t \in TaskIDs |-> NoTask]
    /\ assignments = [t \in TaskIDs |-> NoAssignments]
    /\ last = NoCall
    /\ cascade = Idle
    /\ inflight = [p \in Procs |-> Resting]
    /\ listing = NoListing
    /\ usernames = [u \in UserIDs |-> IF u \in UserRows THEN ToString(u) ELSE Nil]
    /\ \E configured \in BOOLEAN, failed \in BOOLEAN, candidates \in CandidateLists,
          now \in CallTimes :
          generation = Generation(configured, failed, candidates, now)
    /\ details = [t \in TaskIDs |-> NoDetails]
    /\ update = NoUpdate

NextGenerate == CallGenerateTasks

SpecGenerate == InitGenerate /\ [][NextGenerate]_vars

\* a GenerateTasks call made while the database fills: no candidate, one
\* without a title, one with a title, both, and one more than the maximum
PlainLists ==
    LET untitled == GeneratedTask("", "", NoTime)
        titled == GeneratedTask("a", "d", NoTime)
    IN  {<<>>, <<untitled>>, <<titled>>, <<untitled, titled>>,
         [i \in 1..(MaxAIGeneratedTasks + 1) |-> titled]}

CallGenerateTasksOn(configured, failed, aiTasks, now) ==
    Generate(Generation(configured, failed, aiTasks, now))

NextPersist ==
    \/ \E name \in NameInputs, u \in users, generated \in BOOLEAN,
          fault \in {"none", "create", "member"} :
          CallCreateOrganization(name, u, generated, fault)
    \/ \E title \in TitleInputs, status \in StatusInputs, o \in OrgIDs, u \in users,
          fault \in StorageFaults :
          CallCreateTask(title, status, o, u, fault)
    \/ \E configured \in BOOLEAN, failed \in BOOLEAN, aiTasks \in PlainLists, now \in CallTimes :
          CallGenerateTasksOn(configured, failed, aiTasks, now)

SpecPersist == Init /\ [][NextPersist]_vars

\* UpdateTask runs on the inputs of the call in hand
CallUpdateTaskRow ==
    LET r == UpdateTaskRow(DB, details, update.task, update.input, update.failed)
    IN  /\ update.step = "pending"
        /\ Written(r, Call("UpdateTask", NoID, NoID, update.task, <<>>, r.err))
        /\ details' = r.rows
        /\ update' = [update EXCEPT !.step = "done", !.err = r.err]
        /\ UNCHANGED <<cascade, generation, listing, inflight>>

\* the empty database of Init
NoRows ==
    [users |-> UserRows,
     orgs |-> [o \in OrgIDs |-> NoOrg],
     members |-> [o \in OrgIDs |-> [u \in UserIDs |-> NoRow]],
     tasks |-> [t \in TaskIDs |-> NoTask],
     assignments |-> [t \in TaskIDs |-> NoAssignments],
     usernames |-> [u \in UserIDs |-> IF u \in UserRows THEN ToString(u) ELSE Nil]]

\* the databases an UpdateTask call runs on: user 1 created an organization,
\* and then no task, or one task with either status
SeededDBs ==
    LET org == CreateOrganization(NoRows, "Org", 1, TRUE, "none")
    IN  {org.db} \cup {CreateTask(org.db, "a", status, org.id, 1, "none").db :
                           status \in StatusInputs}

\* UpdateTask as a function of the row it finds and its input: one call on
\* each pair
InitUpdate ==
    /\ \E db \in SeededDBs :
          /\ users = db.users
          /\ orgs = db.orgs
          /\ members = db.members
          /\ tasks = db.tasks
          /\ assignments = db.assignments
          /\ usernames = db.usernames
          /\ \E rows \in [TaskIDs -> DetailRows \cup {NoDetails}] :
                /\ \A t \in TaskIDs : rows[t] = NoDetails <=> db.tasks[t].state = "none"
                /\ details = rows
    /\ last = NoCall
    /\ cascade = Idle
    /\ inflight = [p \in Procs |-> Resting]
    /\ listing = NoListing
    /\ generation = NoGeneration
    /\ \E t \in TaskIDs, input \in UpdateTaskInputs, failed \in BOOLEAN :
          update = Update(t, input, failed)

NextUpdate == CallUpdateTaskRow

SpecUpdate == InitUpdate /\ [][NextUpdate]_vars

\* ListTasks runs on the inputs of the call in hand
CallListTasks ==
    LET r == ListTasksDue(DB, details, listing.user, NoID, FALSE, Nil, listing.dueToday,
                          listing.now)
    IN  /\ listing.step = "pending"
        /\ listing' = [listing EXCEPT !.step = "done", !.err = r.err, !.tasks = r.tasks]
        /\ UNCHANGED <<users, orgs, members, tasks, assignments, last, cascade, usernames,
                       generation, details, update, inflight>>

\* ListTasks as a function of the tasks' due dates and the time of the call
InitList ==
    /\ \E db \in SeededDBs :
          /\ users = db.users
          /\ orgs = db.orgs
          /\ members = db.members
          /\ tasks = db.tasks
          /\ assignments = db.assignments
          /\ usernames = db.usernames
          /\ \E due \in [TaskIDs -> ListDueDates] :
                details = [t \in TaskIDs |->
                             IF db.tasks[t].state = "none" THEN NoDetails
                             ELSE TaskDetails("a", "", due[t])]
    /\ last = NoCall
    /\ cascade = Idle
    /\ inflight = [p \in Procs |-> Resting]
    /\ generation = NoGeneration
    /\ update = NoUpdate
    /\ \E u \in UserIDs, dueToday \in BOOLEAN, now \in ListTimes :
          listing = Listing(u, dueToday, now)

NextList == CallListTasks

SpecList == InitList /\ [][NextList]_vars

\* ToggleTaskStatus up to its taskRepo.Update: the task is found, the actor
\* is permitted and the status is flipped in memory
ToggleTaskStatusRead(p, taskID, actorID) ==
    LET r == ToggleTaskStatus(DB, taskID, actorID)
    IN  /\ inflight[p].step = "idle"
        /\ r.err = "ok"
        /\ inflight' = [inflight EXCEPT ![p] =
                           InFlight("ToggleTaskStatus", "read", actorID, taskID, NoID, <<>>,
                                    r.db.tasks[taskID])]
        /\ UNCHANGED <<users, orgs, members, tasks, assignments, last, cascade, usernames,
                       generation, details, update, listing>>

\* UpdateTask up to its taskRepo.Update
UpdateTaskRead(p, taskID, title, status) ==
    LET r == UpdateTask(DB, taskID, title, status)
    IN  /\ inflight[p].step = "idle"
        /\ r.err = "ok"
        /\ inflight' = [inflight EXCEPT ![p] =
                           InFlight("UpdateTask", "read", NoID, taskID, NoID, <<>>,
                                    r.db.tasks[taskID])]
        /\ UNCHANGED <<users, orgs, members, tasks, assignments, last, cascade, usernames,
                       generation, details, update, listing>>

\* taskRepo.Update(task) of the ToggleTaskStatus or UpdateTask call of p, and
\* its return
TaskSave(p, outcome) ==
    LET c == inflight[p]
        r == RepoUpdate(DB, c.task, c.row, outcome)
    IN  /\ c.step = "read" /\ c.op \in {"ToggleTaskStatus", "UpdateTask"}
        /\ Written(r, Call(c.op, c.actor, NoID, c.task, <<>>, r.err))
        /\ inflight' = [inflight EXCEPT ![p].step = IF r.err = "ok" THEN "done" ELSE "failed"]
        /\ UNCHANGED <<cascade, generation, details, update, listing>>

\* tasks edited and toggled by requests that overlap a DeleteTask
NextStale ==
    \/ \E name \in NameInputs, u \in users, generated \in BOOLEAN,
          fault \in {"none", "create", "member"} :
          CallCreateOrganization(name, u, generated, fault)
    \/ \E title \in TitleInputs, status \in StatusInputs, o \in OrgIDs, u \in users,
          fault \in StorageFaults :
          CallCreateTask(title, status, o, u, fault)
    \/ \E t \in TaskIDs, u \in users : CallDeleteTask(t, u)
    \/ \E p \in Procs, t \in TaskIDs, u \in users : ToggleTaskStatusRead(p, t, u)
    \/ \E p \in Procs, t \in TaskIDs, title \in TitleInputs \cup {Nil},
          status \in UpdateStatusInputs :
          UpdateTaskRead(p, t, title, status)
    \/ \E p \in Procs, outcome \in SaveOutcomes : TaskSave(p, outcome)

SpecStale == Init /\ [][NextStale]_vars

\* AssignUsers up to its taskRepo.AssignUsers: the task is found, the actor
\* is its creator and CountUsersByIDs finds every user a member
AssignUsersCheck(p, taskID, actorID, userIDs) ==
    LET r == AssignUsers(DB, taskID, actorID, userIDs)
    IN  /\ inflight[p].step = "idle"
        /\ r.err = "ok"
        /\ inflight' = [inflight EXCEPT ![p] =
                           InFlight("AssignUsers", "read", actorID, taskID,
                                    tasks[taskID].organization_id, uniqueUint64(userIDs),
                                    NoTask)]
        /\ UNCHANGED <<users, orgs, members, tasks, assignments, last, cascade, usernames,
                       generation, details, update, listing>>

\* taskRepo.AssignUsers(task.ID, userIDs) of the AssignUsers call of p, and
\* its return
AssignUsersWrite(p) ==
    LET c == inflight[p]
        r == RepoAssignUsers(DB, c.task, c.ids)
    IN  /\ c.step = "read" /\ c.op = "AssignUsers"
        /\ Written(r, Call(c.op, c.actor, NoID, c.task, c.ids, r.err))
        /\ inflight' = [inflight EXCEPT ![p].step = IF r.err = "ok" THEN "done" ELSE "failed"]
        /\ UNCHANGED <<cascade, generation, details, update, listing>>

\* JoinOrganizationByInvite up to its orgRepo.AddMember: the code names an
\* organization and FindMember finds no row of the user
JoinOrganizationByInviteCheck(p, userID, inviteCode) ==
    LET r == JoinOrganizationByInvite(DB, userID, inviteCode)
    IN  /\ inflight[p].step = "idle"
        /\ r.err = "ok"
        /\ inflight' = [inflight EXCEPT ![p] =
                           InFlight("JoinOrganizationByInvite", "read", userID, NoID, r.id,
                                    <<>>, NoTask)]
        /\ UNCHANGED <<users, orgs, members, tasks, assignments, last, cascade, usernames,
                       generation, details, update, listing>>

\* orgRepo.AddMember(member) of the JoinOrganizationByInvite call of p, and
\* its return
JoinOrganizationByInviteAdd(p) ==
    LET c == inflight[p]
        r == AddMember(DB, c.org, c.actor, RoleMember)
    IN  /\ c.step = "read" /\ c.op = "JoinOrganizationByInvite"
        /\ Written(r, Call(c.op, c.actor, c.org, NoID, <<>>, r.err))
        /\ inflight' = [inflight EXCEPT ![p].step = IF r.err = "ok" THEN "done" ELSE "failed"]
        /\ UNCHANGED <<cascade, generation, details, update, listing>>

\* memberships and assignments changed by requests that overlap
NextRace ==
    \/ \E name \in NameInputs, u \in users, generated \in BOOLEAN,
          fault \in {"none", "create", "member"} :
          CallCreateOrganization(name, u, generated, fault)
    \/ \E title \in TitleInputs, status \in StatusInputs, o \in OrgIDs, u \in users,
          fault \in StorageFaults :
          CallCreateTask(title, status, o, u, fault)
    \/ \E o \in OrgIDs, u \in users, target \in users : CallRemoveMember(o, u, target)
    \/ \E o \in OrgIDs : CallDeleteOrganization(o)
    \/ \E p \in Procs, t \in TaskIDs, u \in users, ids \in IDLists :
          AssignUsersCheck(p, t, u, ids)
    \/ \E p \in Procs : AssignUsersWrite(p)
    \/ \E p \in Procs, u \in users, code \in OrgIDs : JoinOrganizationByInviteCheck(p, u, code)
    \/ \E p \in Procs : JoinOrganizationByInviteAdd(p)

SpecRace == Init /\ [][NextRace]_vars

\* ToggleTaskStatus calls that overlap each other
NextToggle ==
    \/ \E name \in NameInputs, u \in users, generated \in BOOLEAN,
          fault \in {"none", "create", "member"} :
          CallCreateOrganization(name, u, generated, fault)
    \/ \E title \in TitleInputs, status \in StatusInputs, o \in OrgIDs, u \in users,
          fault \in StorageFaults :
          CallCreateTask(title, status, o, u, fault)
    \/ \E p \in Procs, t \in TaskIDs, u \in users : ToggleTaskStatusRead(p, t, u)
    \/ \E p \in Procs, outcome \in SaveOutcomes : TaskSave(p, outcome)

SpecToggle == Init /\ [][NextToggle]_vars

\* ---- properties ----

\* C1 - CreateTask membership gate: with a non-empty title, a creator U
\* without a membership row in organization O gets NotOrganizationMember and
\* nothing is written (no task, no assignment row); with a row (and the
\* storage accepting the writes) the call succeeds and the new task is in O
\* with creator U.  No recorded CreateTask ever wrote for a non-member.
C1_CreateTaskMembershipGate ==
    /\ \A u \in UserIDs, o \in OrgIDs, title \in NonEmptyTitles, status \in StatusInputs,
          fault \in StorageFaults :
          LET r == CreateTask(DB, title, status, o, u, fault)
          IN  /\ FindMember(DB, o, u) = NoRow =>
                    r.err = "NotOrganizationMember" /\ r.db = DB
              /\ (FindMember(DB, o, u) # NoRow /\ fault = "none"
                    /\ NextID(tasks, TaskIDs) # NoID) =>
                    /\ r.err = "ok"
                    /\ tasks[r.id].state = "none"
                    /\ r.db.tasks[r.id].state = "live"
                    /\ r.db.tasks[r.id].organization_id = o
                    /\ r.db.tasks[r.id].creator_id = u
    /\ last.op = "CreateTask" =>
          /\ FindMember(DB, last.org, last.actor) # NoRow
          /\ tasks[last.task].organization_id = last.org
          /\ tasks[last.task].creator_id = last.actor

\* C1 witness: a member has just created a task in an organization that
\* another user is not a member of, and that user's CreateTask is refused
C1_Witness ==
    /\ last.op = "CreateTask" /\ last.err = "ok"
    /\ tasks[last.task].state = "live"
    /\ tasks[last.task].organization_id = last.org
    /\ \E v \in users :
          /\ FindMember(DB, last.org, v) = NoRow
          /\ CreateTask(DB, "a", "", last.org, v, "none").err = "NotOrganizationMember"

\* C2 - self-assignment: a CreateTask call that returns without error leaves
\* the new task with exactly one assignment row, live and for the creator; a
\* call that wrote something and returned an error is the one whose
\* self-assignment write failed, and its task is left with no assignment row.
C2_SelfAssignment ==
    /\ \A u \in UserIDs, o \in OrgIDs, title \in TitleInputs, status \in StatusInputs,
          fault \in StorageFaults :
          LET r == CreateTask(DB, title, status, o, u, fault)
          IN  NextID(tasks, TaskIDs) # NoID =>
                /\ r.err = "ok" =>
                      /\ Assignments(r.db, r.id) = {u}
                      /\ \A v \in UserIDs \ {u} : r.db.assignments[r.id][v] = "none"
                /\ (r.err # "ok" /\ r.db # DB) =>
                      /\ fault = "assign"
                      /\ r.db.tasks[r.id].state = "live"
                      /\ \A v \in UserIDs : r.db.assignments[r.id][v] = "none"
    /\ (last.op = "CreateTask" /\ last.err = "ok") =>
          /\ Assignments(DB, last.task) = {last.actor}
          /\ \A v \in UserIDs \ {last.actor} : assignments[last.task][v] = "none"

\* C2 witness: CreateTask has just returned a task whose only assignment row
\* is the creator's
C2_Witness ==
    /\ last.op = "CreateTask" /\ last.err = "ok"
    /\ Assignments(DB, last.task) = {last.actor}
    /\ Cardinality({v \in UserIDs : assignments[last.task][v] # "none"}) = 1

\* C2 as stated: after any CreateTask call that made a task has returned, the
\* task has exactly one live assignment row, the creator's
C2_AsStated ==
    (last.op = "CreateTask" /\ last.task # NoID) =>
        Assignments(DB, last.task) = {last.actor}

\* the task's own organization
OrganizationOf(db, taskID) == db.tasks[taskID].organization_id

\* every listed ID is an existing user with a membership row in the task's
\* organization
ValidAssignees(db, taskID, userIDs) ==
    \A u \in Range(userIDs) :
        u \in db.users /\ FindMember(db, OrganizationOf(db, taskID), u) # NoRow

\* C3 - AssignUsers target validation: called by the creator of a live task
\* with a non-empty list, AssignUsers succeeds iff every listed ID is an
\* existing user with a membership row in the task's own organization, and
\* then every listed user has a live row; otherwise it returns
\* InvalidTaskAssignee and writes nothing.  A non-member B is rejected, and
\* once B has joined the task's organization by invite code the same call
\* succeeds.
C3_AssignTargetValidation ==
    \A t \in TaskIDs : FindByID(DB, t) =>
        /\ \A ids \in NonEmptyIDLists :
              LET r == AssignUsers(DB, t, tasks[t].creator_id, ids)
              IN  /\ r.err = "ok" <=> ValidAssignees(DB, t, ids)
                  /\ r.err = "ok" =>
                        /\ \A u \in UserIDs :
                              r.db.assignments[t][u] =
                                  IF u \in Range(ids) THEN "live" ELSE assignments[t][u]
                        /\ r.db = [DB EXCEPT !.assignments = r.db.assignments]
                  /\ r.err # "ok" => r.err = "InvalidTaskAssignee" /\ r.db = DB
        /\ \A b \in users, code \in OrgIDs :
              LET j == JoinOrganizationByInvite(DB, b, code)
              IN  (j.err = "ok" /\ j.id = OrganizationOf(DB, t)) =>
                    /\ AssignUsers(DB, t, tasks[t].creator_id, <<b>>).err = "InvalidTaskAssignee"
                    /\ AssignUsers(j.db, t, tasks[t].creator_id, <<b>>).err = "ok"
                    /\ b \in Assignments(AssignUsers(j.db, t, tasks[t].creator_id, <<b>>).db, t)

\* C3 witness: the creator has just assigned a user who joined the task's
\* organization by invite code; that user is also in another organization,
\* and a user of that other organization only would be rejected
C3_Witness ==
    /\ last.op = "AssignUsers" /\ last.err = "ok"
    /\ last.actor = tasks[last.task].creator_id
    /\ \E b \in Range(last.ids), o \in OrgIDs :
          /\ b # last.actor
          /\ FindMember(DB, OrganizationOf(DB, last.task), b) = RoleMember
          /\ assignments[last.task][b] = "live"
          /\ o # OrganizationOf(DB, last.task)
          /\ FindMember(DB, o, b) # NoRow
          /\ FindMember(DB, o, last.actor) # NoRow
    /\ \E c \in UserIDs : AssignUsers(DB, last.task, last.actor, <<c>>).err = "InvalidTaskAssignee"

\* C4 - assignment uniqueness and idempotence: a (task, user) pair has one
\* row, which is absent, live or soft-deleted.  After the creator's
\* AssignUsers has succeeded, calling it again with the same user set, in any
\* order and with duplicate IDs, returns no error and changes nothing; after an
\* intervening UnassignUsers of those users it returns no error and every
\* listed user has a live row again, the tables being as after the first call.
C4_AssignIdempotent ==
    /\ \A t \in TaskIDs, u \in UserIDs : assignments[t][u] \in {"none", "live", "deleted"}
    /\ \A t \in TaskIDs, ids \in NonEmptyIDLists :
          LET c == tasks[t].creator_id
              r1 == AssignUsers(DB, t, c, ids)
              un == UnassignUsers(r1.db, t, c, ids)
          IN  (FindByID(DB, t) /\ r1.err = "ok") =>
                /\ \A u \in Range(ids) : r1.db.assignments[t][u] = "live"
                /\ un.err = "ok"
                /\ \A ids2 \in NonEmptyIDLists : Range(ids2) = Range(ids) =>
                      /\ AssignUsers(r1.db, t, c, ids2).err = "ok"
                      /\ AssignUsers(r1.db, t, c, ids2).db = r1.db
                      /\ AssignUsers(un.db, t, c, ids2).err = "ok"
                      /\ AssignUsers(un.db, t, c, ids2).db = r1.db
    /\ (last.op = "AssignUsers" /\ last.err = "ok") =>
          \A u \in Range(last.ids) : assignments[last.task][u] = "live"

\* C4 witness: the creator has just assigned another user with that user's ID
\* twice in the list; the same call again, and the same call after unassigning
\* that user, succeed and leave the tables as they are now
C4_Witness ==
    /\ last.op = "AssignUsers" /\ last.err = "ok"
    /\ Len(last.ids) = 2 /\ last.ids[1] = last.ids[2] /\ last.ids[1] # last.actor
    /\ assignments[last.task][last.ids[1]] = "live"
    /\ AssignUsers(DB, last.task, last.actor, last.ids).err = "ok"
    /\ AssignUsers(DB, last.task, last.actor, last.ids).db = DB
    /\ UnassignUsers(DB, last.task, last.actor, last.ids).db.assignments[last.task][last.ids[1]]
          = "deleted"
    /\ AssignUsers(UnassignUsers(DB, last.task, last.actor, last.ids).db,
                   last.task, last.actor, last.ids).db = DB

\* C5 - creator-only gating: on a live task, for every actor other than the
\* creator, DeleteTask, AssignUsers and UnassignUsers with a non-empty list
\* return NotTaskCreator and write nothing, whatever the actor's assignment
\* or role; every recorded success of the three was the creator's.
C5_CreatorOnly ==
    /\ \A t \in TaskIDs, a \in UserIDs :
          (FindByID(DB, t) /\ a # tasks[t].creator_id) =>
              /\ DeleteTask(DB, t, a).err = "NotTaskCreator"
              /\ DeleteTask(DB, t, a).db = DB
              /\ \A ids \in NonEmptyIDLists :
                    /\ AssignUsers(DB, t, a, ids).err = "NotTaskCreator"
                    /\ AssignUsers(DB, t, a, ids).db = DB
                    /\ UnassignUsers(DB, t, a, ids).err = "NotTaskCreator"
                    /\ UnassignUsers(DB, t, a, ids).db = DB
    /\ (last.op \in {"DeleteTask", "AssignUsers", "UnassignUsers"} /\ last.err = "ok") =>
          last.actor = tasks[last.task].creator_id

\* C5 witness: a live task whose organization's owner is assigned to it and
\* did not create it; the owner's DeleteTask, AssignUsers and UnassignUsers
\* are refused
C5_Witness ==
    \E t \in TaskIDs, a \in users :
        /\ FindByID(DB, t)
        /\ a # tasks[t].creator_id
        /\ assignments[t][a] = "live"
        /\ FindMember(DB, OrganizationOf(DB, t), a) = RoleOwner
        /\ DeleteTask(DB, t, a).err = "NotTaskCreator"
        /\ AssignUsers(DB, t, a, <<a>>).err = "NotTaskCreator"
        /\ UnassignUsers(DB, t, a, <<a>>).err = "NotTaskCreator"

C7_ToggleSymmetry ==
    \A t \in TaskIDs, a1 \in UserIDs, a2 \in UserIDs :
        LET r1 == ToggleTaskStatus(DB, t, a1)
            r2 == ToggleTaskStatus(r1.db, t, a2)
        IN  (FindByID(DB, t) /\ r1.err = "ok" /\ r2.err = "ok") =>
                r2.db.tasks[t].status = tasks[t].status

\* C8 - toggle permission: on a live task ToggleTaskStatus returns no error
\* exactly for the creator and the users with a live assignment row, and then
\* only the status changes; for everybody else it returns
\* TaskPermissionDenied and writes nothing.  After the creator's UnassignUsers
\* the listed users other than the creator are denied and the creator is
\* not; every recorded toggle was made by the creator or an assignee.
C8_TogglePermission ==
    /\ \A t \in TaskIDs, a \in UserIDs :
          LET r == ToggleTaskStatus(DB, t, a)
              permitted == a = tasks[t].creator_id \/ assignments[t][a] = "live"
          IN  FindByID(DB, t) =>
                /\ r.err = "ok" <=> permitted
                /\ r.err = "ok" =>
                      /\ r.db.tasks[t].status # tasks[t].status
                      /\ r.db.tasks[t].status \in {TaskStatusTodo, TaskStatusDone}
                      /\ r.db = [DB EXCEPT !.tasks[t].status = r.db.tasks[t].status]
                /\ r.err # "ok" => r.err = "TaskPermissionDenied" /\ r.db = DB
    /\ \A t \in TaskIDs, ids \in NonEmptyIDLists :
          LET c == tasks[t].creator_id
              un == UnassignUsers(DB, t, c, ids)
          IN  (FindByID(DB, t) /\ un.err = "ok") =>
                /\ ToggleTaskStatus(un.db, t, c).err = "ok"
                /\ \A u \in Range(ids) \ {c} :
                      ToggleTaskStatus(un.db, t, u).err = "TaskPermissionDenied"
    /\ (last.op = "ToggleTaskStatus" /\ last.err = "ok") =>
          \/ last.actor = tasks[last.task].creator_id
          \/ assignments[last.task][last.actor] = "live"

\* C8 witness: the creator has just unassigned themselves and another user
\* who was assigned; the creator may still toggle, the other user may not
C8_Witness ==
    /\ last.op = "UnassignUsers" /\ last.err = "ok"
    /\ FindByID(DB, last.task)
    /\ last.actor \in Range(last.ids)
    /\ assignments[last.task][last.actor] = "deleted"
    /\ ToggleTaskStatus(DB, last.task, last.actor).err = "ok"
    /\ \E u \in Range(last.ids) :
          /\ u # last.actor
          /\ assignments[last.task][u] = "deleted"
          /\ ToggleTaskStatus(DB, last.task, u).err = "TaskPermissionDenied"

\* the task appears in some ListTasks result
Listed(db, taskID) ==
    \E u \in UserIDs, o \in OrgIDs \cup {NoID}, assignedToMe \in BOOLEAN,
       status \in UpdateStatusInputs :
        taskID \in ListTasks(db, u, o, assignedToMe, status).tasks

\* what C9 says of a deleted task, for the lists of user IDs in lists
GoneFor(db, taskID, lists) ==
    /\ GetTask(db, taskID) = "TaskNotFound"
    /\ \A title \in TitleInputs \cup {Nil}, status \in UpdateStatusInputs :
          UpdateTask(db, taskID, title, status).err = "TaskNotFound"
    /\ \A a \in UserIDs :
          /\ DeleteTask(db, taskID, a).err = "TaskNotFound"
          /\ ToggleTaskStatus(db, taskID, a).err = "TaskNotFound"
          /\ \A ids \in lists :
                /\ AssignUsers(db, taskID, a, ids).err = "TaskNotFound"
                /\ UnassignUsers(db, taskID, a, ids).err = "TaskNotFound"
    /\ ~Listed(db, taskID)

\* C9 - DeleteTask effect: the creator's DeleteTask on a live task returns no
\* error and in one step leaves the task deleted with no live assignment row,
\* everything else unchanged; on a deleted task GetTask, UpdateTask,
\* ToggleTaskStatus, DeleteTask, and AssignUsers and UnassignUsers with a
\* non-empty list, return TaskNotFound, and no ListTasks call returns it.
C9_DeleteTaskEffect ==
    /\ \A t \in TaskIDs :
          LET r == DeleteTask(DB, t, tasks[t].creator_id)
          IN  FindByID(DB, t) =>
                /\ r.err = "ok"
                /\ r.db.tasks[t] = [tasks[t] EXCEPT !.state = "deleted"]
                /\ Assignments(r.db, t) = {}
                /\ \A u \in UserIDs : assignments[t][u] = "none" => r.db.assignments[t][u] = "none"
                /\ r.db = [DB EXCEPT !.tasks[t] = r.db.tasks[t],
                                     !.assignments[t] = r.db.assignments[t]]
                /\ GoneFor(r.db, t, NonEmptyIDLists)
    /\ \A t \in TaskIDs : tasks[t].state = "deleted" => GoneFor(DB, t, NonEmptyIDLists)
    /\ (last.op = "DeleteTask" /\ last.err = "ok") =>
          /\ tasks[last.task].state = "deleted"
          /\ Assignments(DB, last.task) = {}

\* C9 witness: DeleteTask has just deleted a task that had two assignment
\* rows; both are soft-deleted with it
C9_Witness ==
    /\ last.op = "DeleteTask" /\ last.err = "ok"
    /\ tasks[last.task].state = "deleted"
    /\ Cardinality({u \in UserIDs : assignments[last.task][u] = "deleted"}) >= 2
    /\ Assignments(DB, last.task) = {}
    /\ GetTask(DB, last.task) = "TaskNotFound"

\* C9 as stated: after a successful DeleteTask the task and its rows are
\* gone and every one of the six operations returns TaskNotFound, AssignUsers
\* and UnassignUsers for every list of user IDs
C9_AsStated ==
    (last.op = "DeleteTask" /\ last.err = "ok") =>
        /\ tasks[last.task].state = "deleted"
        /\ Assignments(DB, last.task) = {}
        /\ GoneFor(DB, last.task, IDLists)

\* C10 - defensive service methods: for every live task and every actor
\* without a membership row in the task's organization, DeleteTask,
\* AssignUsers, UnassignUsers and ToggleTaskStatus called on the service
\* leave the task and its assignment rows as they are.
C10_DefensiveServices ==
    \A t \in TaskIDs, u \in UserIDs :
        (FindByID(DB, t) /\ FindMember(DB, OrganizationOf(DB, t), u) = NoRow) =>
            /\ DeleteTask(DB, t, u).db = DB
            /\ ToggleTaskStatus(DB, t, u).db = DB
            /\ \A ids \in IDLists :
                  /\ AssignUsers(DB, t, u, ids).db = DB
                  /\ UnassignUsers(DB, t, u, ids).db = DB

\* C11 - ListTasks tenant isolation: every task ListTasks returns for user U
\* is live and of an organization in which U has a membership row; with an
\* explicit organization U is not a member of it returns
\* NotOrganizationMember; with no organization and no membership it returns
\* no task and no error.  After RemoveMember has removed U from O, no
\* ListTasks call by U returns a task of O.
C11_ListTasksIsolation ==
    /\ \A u \in UserIDs, o \in OrgIDs \cup {NoID}, assignedToMe \in BOOLEAN,
          status \in UpdateStatusInputs :
          LET r == ListTasks(DB, u, o, assignedToMe, status)
          IN  /\ \A t \in r.tasks :
                    /\ FindByID(DB, t)
                    /\ FindMember(DB, OrganizationOf(DB, t), u) # NoRow
                    /\ o # NoID => OrganizationOf(DB, t) = o
              /\ (o # NoID /\ FindMember(DB, o, u) = NoRow) =>
                    r.err = "NotOrganizationMember" /\ r.tasks = {}
              /\ (o # NoID /\ FindMember(DB, o, u) # NoRow) => r.err = "ok"
              /\ (o = NoID /\ \A o2 \in OrgIDs : FindMember(DB, o2, u) = NoRow) =>
                    r.err = "ok" /\ Cardinality(r.tasks) = 0
    /\ \A o \in OrgIDs, a \in users, target \in users :
          LET rm == RemoveMember(DB, o, a, target)
          IN  rm.err = "ok" =>
                \A o2 \in OrgIDs \cup {NoID}, assignedToMe \in BOOLEAN,
                   status \in UpdateStatusInputs, t \in TaskIDs :
                    t \in ListTasks(rm.db, target, o2, assignedToMe, status).tasks =>
                        OrganizationOf(DB, t) # o

\* C11 witness: RemoveMember has just removed a user from the organization of
\* a live task that user created and is assigned to; the user's ListTasks no
\* longer returns it, a remaining member's does
C11_Witness ==
    /\ last.op = "RemoveMember" /\ last.err = "ok"
    /\ \E t \in TaskIDs, v \in users :
          /\ FindByID(DB, t)
          /\ OrganizationOf(DB, t) = last.org
          /\ tasks[t].creator_id = last.ids[1]
          /\ assignments[t][last.ids[1]] = "live"
          /\ t \notin ListTasks(DB, last.ids[1], NoID, FALSE, Nil).tasks
          /\ ListTasks(DB, last.ids[1], last.org, FALSE, Nil).err = "NotOrganizationMember"
          /\ t \in ListTasks(DB, v, NoID, FALSE, Nil).tasks

\* the live organizations holding the invite code
HoldersOf(db, code) == {o \in OrgIDs : db.orgs[o].state = "live" /\ db.orgs[o].invite_code = code}

\* C12 - JoinOrganizationByInvite outcomes: when no live organization holds
\* the code the call returns InvalidInviteCode and writes nothing; when the
\* user already has a membership row in the organization holding it the call
\* returns AlreadyOrganizationMember and writes nothing, the role included;
\* otherwise it returns no error and the only change is the new row
\* (organization, user) with role member.
C12_JoinOutcomes ==
    /\ \A code \in InviteCodes : Cardinality(HoldersOf(DB, code)) <= 1
    /\ \A u \in users, code \in InviteCodes \cup {NoID} :
          LET r == JoinOrganizationByInvite(DB, u, code)
          IN  /\ HoldersOf(DB, code) = {} => r.err = "InvalidInviteCode" /\ r.db = DB
              /\ \A o \in HoldersOf(DB, code) :
                    /\ members[o][u] # NoRow =>
                          r.err = "AlreadyOrganizationMember" /\ r.db = DB
                    /\ members[o][u] = NoRow =>
                          /\ r.err = "ok"
                          /\ r.id = o
                          /\ r.db = [DB EXCEPT !.members[o][u] = RoleMember]
    /\ (last.op = "JoinOrganizationByInvite" /\ last.err = "ok") =>
          members[last.org][last.actor] = RoleMember

\* C12 witness: a user has just joined an organization; joining again is
\* refused for that user and for the owner, whose role stays owner, and the
\* code of a deleted organization is invalid
C12_Witness ==
    /\ last.op = "JoinOrganizationByInvite" /\ last.err = "ok"
    /\ members[last.org][last.actor] = RoleMember
    /\ JoinOrganizationByInvite(DB, last.actor, orgs[last.org].invite_code).err
          = "AlreadyOrganizationMember"
    /\ \E owner \in users :
          /\ members[last.org][owner] = RoleOwner
          /\ JoinOrganizationByInvite(DB, owner, orgs[last.org].invite_code).err
                = "AlreadyOrganizationMember"
    /\ \E o \in OrgIDs :
          /\ orgs[o].state = "deleted"
          /\ JoinOrganizationByInvite(DB, last.actor, orgs[o].invite_code).err
                = "InvalidInviteCode"

\* C13 - invite-code rotation: a successful RegenerateInviteCode of O with a
\* code other than O's old one changes nothing but O's code; on the resulting
\* tables a join with the old code adds no member to O and a join with the
\* new code by a non-member adds that member to O.  At all times a join adds a
\* member to O only with the code O holds then.
C13_InviteCodeRotation ==
    /\ \A o \in OrgIDs, code \in InviteCodes :
          LET old == orgs[o].invite_code
              rg == RegenerateInviteCode(DB, o, code)
          IN  (rg.err = "ok" /\ code # old) =>
                /\ rg.db = [DB EXCEPT !.orgs[o].invite_code = code]
                /\ rg.db.members = members
                /\ \A u \in users :
                      /\ JoinOrganizationByInvite(rg.db, u, old).db.members[o] = members[o]
                      /\ JoinOrganizationByInvite(rg.db, u, old).id # o
                      /\ members[o][u] = NoRow =>
                            /\ JoinOrganizationByInvite(rg.db, u, code).err = "ok"
                            /\ JoinOrganizationByInvite(rg.db, u, code).id = o
                            /\ JoinOrganizationByInvite(rg.db, u, code).db.members[o][u]
                                  = RoleMember
    /\ \A u \in users, code \in InviteCodes \cup {NoID}, o \in OrgIDs :
          JoinOrganizationByInvite(DB, u, code).db.members[o] # members[o] =>
              orgs[o].state = "live" /\ orgs[o].invite_code = code
    /\ (last.op = "RegenerateInviteCode" /\ last.err = "ok") =>
          /\ orgs[last.org].invite_code = last.ids[2]
          /\ ~CodeTaken(DB, last.ids[2], last.org)

\* C13 witness: the code of an organization with an owner has just been
\* replaced by a different one; a non-member's join with the old code is
\* refused and with the new code accepted
C13_Witness ==
    /\ last.op = "RegenerateInviteCode" /\ last.err = "ok"
    /\ last.ids[1] # last.ids[2]
    /\ \E owner \in users, u \in users :
          /\ members[last.org][owner] = RoleOwner
          /\ members[last.org][u] = NoRow
          /\ JoinOrganizationByInvite(DB, u, last.ids[1]).err = "InvalidInviteCode"
          /\ JoinOrganizationByInvite(DB, u, last.ids[2]).err = "ok"
          /\ JoinOrganizationByInvite(DB, u, last.ids[2]).id = last.org

\* C14 - RemoveMember: with the actor as target the service returns
\* CannotRemoveYourself and through the HTTP handler, too, the caller's own
\* membership row remains; a target without a row gives
\* OrganizationMemberNotFound; otherwise exactly the target's row in that
\* organization is deleted.
C14_RemoveMember ==
    /\ \A o \in OrgIDs, a \in UserIDs, target \in UserIDs :
          LET r == RemoveMember(DB, o, a, target)
          IN  /\ a = target => r.err = "CannotRemoveYourself" /\ r.db = DB
              /\ (a # target /\ members[o][target] = NoRow) =>
                    r.err = "OrganizationMemberNotFound" /\ r.db = DB
              /\ (a # target /\ members[o][target] # NoRow) =>
                    r.err = "ok" /\ r.db = [DB EXCEPT !.members[o][target] = NoRow]
    /\ \A o \in OrgIDs, u \in users :
          HandlerRemoveMember(DB, o, u, u).db.members[o][u] = members[o][u]

\* the tasks, the membership rows and the row of the organization are gone
OrganizationGone(db, orgID) ==
    /\ db.orgs[orgID].state = "deleted"
    /\ \A u \in UserIDs : db.members[orgID][u] = NoRow
    /\ \A t \in TaskIDs : ~(db.tasks[t].state = "live" /\ db.tasks[t].organization_id = orgID)

\* a task, the membership rows or the row of the organization are gone
SomethingGone(db, orgID) ==
    \/ db.orgs[orgID].state = "deleted"
    \/ \A u \in UserIDs : db.members[orgID][u] = NoRow
    \/ \E t \in TaskIDs : db.tasks[t].state = "deleted" /\ db.tasks[t].organization_id = orgID

\* C15 - DeleteOrganization cascade atomicity: on a missing organization the
\* service returns OrganizationNotFound and writes nothing; on an existing one
\* it leaves tasks, membership rows and organization gone; and in every state
\* in which a DeleteOrganization request, through the service or the HTTP
\* route, has removed something of an organization, all three are gone.
C15_CascadeAtomic ==
    /\ \A o \in OrgIDs :
          LET r == DeleteOrganization(DB, o)
          IN  /\ ~OrgFindByID(DB, o) => r.err = "OrganizationNotFound" /\ r.db = DB
              /\ OrgFindByID(DB, o) => r.err = "ok" /\ OrganizationGone(r.db, o)
    /\ (last.op \in {"DeleteOrganization", "HandlerDeleteOrganization"}
          /\ SomethingGone(DB, last.org)) =>
          OrganizationGone(DB, last.org)
\* the database d1 is d0 with one more user, one more organization and the
\* owner row linking them, and nothing else
SignedUp(d0, d1, username) ==
    \E u \in UserIDs \ d0.users, o \in OrgIDs :
        /\ d0.orgs[o].state = "none"
        /\ d1 = [d0 EXCEPT !.users = @ \cup {u}, !.usernames[u] = username,
                           !.orgs[o] = [state |-> "live", invite_code |-> d1.orgs[o].invite_code],
                           !.members[o][u] = RoleOwner]

\* every user owns an organization and every organization has its owner
NoOrphan(db) ==
    /\ \A u \in db.users :
          \E o \in OrgIDs : db.orgs[o].state = "live" /\ db.members[o][u] = RoleOwner
    /\ \A o \in OrgIDs : db.orgs[o].state = "live" =>
          \E u \in db.users : db.members[o][u] = RoleOwner

\* C16 - Signup atomicity: a signup, through the service or through the HTTP
\* route, either persists the new user, a new organization and the owner row
\* linking exactly the two, or persists nothing; a taken username or a short
\* password is refused with nothing changed; no signup leaves a user without
\* an organization they own or an organization without its owner.
C16_SignupAtomic ==
    /\ CanSignup =>
          \A name \in UsernameInputs, n \in PasswordLengths, generated \in BOOLEAN,
             fault \in SignupFaults :
             \A r \in {Signup(DB, name, n, generated, fault),
                        HandlerSignup(DB, name, n, generated, fault)} :
                /\ r.err = "ok" => SignedUp(DB, r.db, TrimSpace(name))
                /\ r.err # "ok" => r.db = DB
                /\ (FindByUsername(DB, TrimSpace(name)) \/ n < MinPasswordLength) => r.err # "ok"
    /\ NoOrphan(DB)
\* the title of candidate c is blank after trimming
Blank(c) == TrimSpace(c.title) = ""

\* C17 - GenerateTasks failure outcomes, in this order of precedence:
\* AIServiceNotConfigured without a backend (the extractor is not asked); the
\* wrapped failure when the extractor fails; AINoTasksGenerated on zero
\* candidates; the bounds error on more candidates than the maximum, however
\* few of them would survive the filter, with no tasks returned;
\* AINoValidTasks when every title is blank; in every other case success
\* with a non-empty list.
C17_FailurePrecedence ==
    generation.step = "done" =>
        LET g == generation
            n == Len(g.candidates)
        IN  /\ g.err = IF ~g.configured THEN "AIServiceNotConfigured"
                       ELSE IF g.failed THEN "failed to generate tasks"
                       ELSE IF n = 0 THEN "AINoTasksGenerated"
                       ELSE IF n > MaxAIGeneratedTasks THEN "AI generated too many tasks"
                       ELSE IF \A i \in 1..n : Blank(g.candidates[i]) THEN "AINoValidTasks"
                       ELSE "ok"
            /\ g.asked = g.configured
            /\ g.err = "ok" <=> g.out # <<>>

\* more candidates than the maximum, one of them with a title: the bounds error
C17_Witness ==
    /\ generation.step = "done"
    /\ generation.err = "AI generated too many tasks"
    /\ Cardinality({i \in 1..Len(generation.candidates) : ~Blank(generation.candidates[i])}) = 1

\* C18 - GenerateTasks sanitization: on success the result is, in the
\* extractor's order, exactly the candidates whose title is not blank after
\* trimming, each with its title and description, its due date nil when the
\* original was more than 24 hours before the call's time.Now() and the
\* original otherwise (23 hours before, exactly 24, later, or nil).
C18_Sanitization ==
    (generation.step = "done" /\ generation.err = "ok") =>
        LET g == generation
            kept == SelectSeq(g.candidates, LAMBDA c : ~Blank(c))
        IN  /\ Len(g.out) = Len(kept)
            /\ \A i \in 1..Len(kept) :
                  /\ g.out[i].title = kept[i].title
                  /\ g.out[i].description = kept[i].description
                  /\ g.out[i].due_date =
                        IF kept[i].due_date # NoTime /\ g.now - kept[i].due_date > 24
                        THEN NoTime ELSE kept[i].due_date

\* three candidates, two of them blank; the third was due 25 hours before
\* the call and comes back alone without a due date
C18_Witness ==
    /\ generation.step = "done" /\ generation.err = "ok"
    /\ Len(generation.candidates) = 3 /\ Len(generation.out) = 1
    /\ \E i \in 1..3 : /\ ~Blank(generation.candidates[i])
                        /\ generation.now - generation.candidates[i].due_date = 25
                        /\ generation.candidates[i].due_date # NoTime
    /\ generation.out[1].due_date = NoTime
\* C19 - GenerateTasks persists nothing: whatever it returns, a GenerateTasks
\* call leaves tasks, assignment rows, organizations and memberships as they
\* were, and a task row appears only in a CreateTask call.
C19_GenerateTasksPersistsNothing ==
    [][/\ generation' # generation => UNCHANGED <<users, orgs, members, tasks, assignments>>
       /\ (\E t \in TaskIDs : tasks[t].state = "none" /\ tasks'[t].state # "none") =>
             last'.op = "CreateTask"]_vars

\* a successful GenerateTasks call, with an organization and no task
C19_Witness ==
    /\ generation.step = "done" /\ generation.err = "ok"
    /\ last.op = "GenerateTasks"
    /\ \E o \in OrgIDs : orgs[o].state = "live"
    /\ \A t \in TaskIDs : tasks[t].state = "none"
\* C20 - UpdateTask partial-update semantics: a successful UpdateTask sets
\* the title, the description and the status that its input gives and leaves
\* the absent ones, the organization, the creator and the assignment rows as
\* they were; the due date becomes nil when clear is signalled, with or
\* without a value, the value when only a value is given, and stays
\* otherwise; a present empty title fails with TitleEmpty and nothing changes.
C20_PartialUpdate ==
    [][(update.step = "pending" /\ update'.step = "done") =>
          LET t == update.task
              in == update.input
          IN  /\ update'.err = "ok" =>
                    /\ details'[t].title = IF in.Title # Nil THEN in.Title ELSE details[t].title
                    /\ details'[t].description =
                          IF in.Description # Nil THEN in.Description ELSE details[t].description
                    /\ tasks'[t].status = IF in.Status # Nil THEN in.Status ELSE tasks[t].status
                    /\ details'[t].due_date =
                          IF in.ClearDueDate THEN NoTime
                          ELSE IF in.DueDate # NoTime THEN in.DueDate
                          ELSE details[t].due_date
                    /\ tasks' = [tasks EXCEPT ![t].status = tasks'[t].status]
                    /\ details' = [details EXCEPT ![t] = details'[t]]
                    /\ UNCHANGED <<users, orgs, members, assignments>>
              /\ (FindByID(DB, t) /\ in.Title = "") =>
                    /\ update'.err = "TitleEmpty"
                    /\ UNCHANGED <<users, orgs, members, tasks, assignments, details>>
              /\ (FindByID(DB, t) /\ in.Title # "" /\ ~update.failed) => update'.err = "ok"]_vars

\* a successful call that signalled clear together with a value, on a task
\* with an assignment row: the due date is nil and the title is the old one
C20_Witness ==
    /\ update.step = "done" /\ update.err = "ok"
    /\ update.input.ClearDueDate /\ update.input.DueDate # NoTime
    /\ update.input.Title = Nil /\ update.input.Description = "d"
    /\ details[update.task] = TaskDetails("b", "d", NoTime)
    /\ \E u \in UserIDs : assignments[update.task][u] = "live"
\* C21 - Task status domain: in every state reached through CreateTask,
\* UpdateTask and ToggleTaskStatus the status of every task is TODO or DONE,
\* and a task created without a status has status TODO.
C21_StatusDomain ==
    /\ \A t \in TaskIDs :
          tasks[t].state # "none" => tasks[t].status \in {TaskStatusTodo, TaskStatusDone}
    /\ \A u \in UserIDs, o \in OrgIDs, title \in NonEmptyTitles :
          LET r == CreateTask(DB, title, "", o, u, "none")
          IN  (NextID(tasks, TaskIDs) # NoID /\ r.err = "ok") =>
                 r.db.tasks[r.id].status = TaskStatusTodo
\* the organization has the user's row with role owner, and the user's list
\* shows it with that role
OwnedBy(db, orgID, userID) ==
    /\ db.orgs[orgID].state = "live"
    /\ db.members[orgID][userID] = RoleOwner
    /\ [organization_id |-> orgID, role |-> RoleOwner] \in ListOrganizationsForUser(db, userID)

\* C22 - CreateOrganization: a name blank after trimming fails with
\* InvalidOrganizationName and creates nothing; a call that returns without
\* error has created exactly one organization, with the row of OwnerID as
\* owner and nothing else, which the owner's ListOrganizationsForUser shows
\* with role owner; a call that returns an error after writing has created
\* the organization without any membership row (the owner's insert failed).
C22_CreateOrganization ==
    /\ NextID(orgs, OrgIDs) # NoID =>
          \A name \in NameInputs, u \in users, generated \in BOOLEAN,
             fault \in {"none", "create", "member"} :
             LET r == CreateOrganization(DB, name, u, generated, fault)
             IN  /\ TrimSpace(name) = "" => r.err = "InvalidOrganizationName" /\ r.db = DB
                 /\ r.err = "ok" =>
                       /\ orgs[r.id].state = "none"
                       /\ OwnedBy(r.db, r.id, u)
                       /\ r.db = [DB EXCEPT !.orgs[r.id] = r.db.orgs[r.id],
                                            !.members[r.id][u] = RoleOwner]
                 /\ (r.err # "ok" /\ r.db # DB) =>
                       /\ fault = "member"
                       /\ r.db = [DB EXCEPT !.orgs[r.id] = r.db.orgs[r.id]]
                       /\ r.db.orgs[r.id].state = "live"
    /\ (last.op = "CreateOrganization" /\ last.err = "ok") => OwnedBy(DB, last.org, last.actor)

\* CreateOrganization has just returned an organization owned by its creator
C22_Witness ==
    /\ last.op = "CreateOrganization" /\ last.err = "ok"
    /\ OwnedBy(DB, last.org, last.actor)
    /\ Cardinality({u \in UserIDs : members[last.org][u] # NoRow}) = 1

\* C22 as stated: once a CreateOrganization call has persisted an
\* organization, the organization has the row of OwnerID with role owner
C22_AsStated ==
    (last.op = "CreateOrganization" /\ last.org # NoID) => OwnedBy(DB, last.org, last.actor)
\* the midnight that starts the local day of time now
Midnight(now) == CHOOSE s \in 0..now : s % HoursPerDay = 0 /\ s <= now /\ now < s + HoursPerDay

\* C23 - Due-today window: with dueToday set, ListTasks returns, of the tasks
\* it returns without it, exactly those whose due date d satisfies
\* startOfLocalDay <= d < startOfLocalDay + 24h, the day being the one of the
\* call; a task due at that midnight is in, one due 24 hours later is out,
\* and so is a task without a due date.
C23_DueTodayWindow ==
    (listing.step = "done" /\ listing.dueToday) =>
        LET all == ListTasks(DB, listing.user, NoID, FALSE, Nil)
            start == Midnight(listing.now)
        IN  /\ listing.err = all.err
            /\ listing.tasks =
                  {t \in all.tasks : /\ details[t].due_date # NoTime
                                     /\ start <= details[t].due_date
                                     /\ details[t].due_date < start + 24}
            /\ \A t \in all.tasks :
                  /\ details[t].due_date = start => t \in listing.tasks
                  /\ details[t].due_date \in {start + 24, NoTime} => t \notin listing.tasks

\* a call during the day after midnight 24 returns the task due exactly then
C23_Witness ==
    /\ listing.step = "done" /\ listing.dueToday /\ listing.now = 47
    /\ \E t \in listing.tasks : details[t].due_date = 24
\* the database without the task, soft-deleted (gone = "deleted") or never
\* created (gone = "none")
WithoutTask(db, taskID, gone) ==
    [db EXCEPT !.tasks[taskID] = IF gone = "none" THEN NoTask ELSE [@ EXCEPT !.state = gone],
               !.assignments[taskID] = NoAssignments]

\* the database without the organization and without its membership rows
WithoutOrganization(db, orgID, gone) ==
    [db EXCEPT !.orgs[orgID] = IF gone = "none" THEN NoOrg ELSE [@ EXCEPT !.state = gone],
               !.members[orgID] = [u \in UserIDs |-> NoRow]]

\* C24 - No existence leak in the access gates: to a caller without a
\* membership row in the owning organization RequireTaskAccess answers the
\* same 404 "Task not found", and RequireOrganizationAccess the same 404
\* "Organization not found", whether the task (organization) exists or not,
\* and the handler does not run; the answer is the one the caller gets in
\* the state that differs only by that task (organization) being absent.
C24_NoExistenceLeak ==
    /\ \A t \in TaskIDs, u \in UserIDs :
          (FindByID(DB, t) => FindMember(DB, tasks[t].organization_id, u) = NoRow) =>
             /\ RequireTaskAccess(DB, t, u) = Abort(404, "Task not found")
             /\ \A gone \in {"none", "deleted"} :
                   RequireTaskAccess(WithoutTask(DB, t, gone), t, u) = RequireTaskAccess(DB, t, u)
    /\ \A o \in OrgIDs, u \in UserIDs :
          FindMember(DB, o, u) = NoRow =>
             /\ RequireOrganizationAccess(DB, o, u) = Abort(404, "Organization not found")
             /\ \A gone \in {"none", "deleted"} :
                   RequireOrganizationAccess(WithoutOrganization(DB, o, gone), o, u) =
                      RequireOrganizationAccess(DB, o, u)
             /\ \A t \in TaskIDs : tasks[t].organization_id = o =>
                   \A p \in OrgIDs \ {o} :
                      RequireOrganizationAccess(WithoutTask(DB, t, "none"), p, u) =
                         RequireOrganizationAccess(DB, p, u)

\* a live task of a live organization, a user who is not a member and gets
\* 404 from both gates, and a member whom both gates let through
C24_Witness ==
    \E t \in TaskIDs, u \in users, v \in users :
        /\ FindByID(DB, t) /\ OrgFindByID(DB, tasks[t].organization_id)
        /\ RequireTaskAccess(DB, t, u).status = 404
        /\ RequireOrganizationAccess(DB, tasks[t].organization_id, u).status = 404
        /\ RequireTaskAccess(DB, t, v).next
        /\ RequireOrganizationAccess(DB, tasks[t].organization_id, v).next
\* C25 - Deleted tasks stay deleted: once DeleteTask has deleted a task, no
\* UpdateTask or ToggleTaskStatus call, also one that read the task before
\* the deletion and writes it afterwards, makes it findable or listed again.
C25_DeletedStaysDeleted ==
    [][\A t \in TaskIDs :
          tasks[t].state = "deleted" =>
             /\ ~FindByID(DB', t)
             /\ \A u \in UserIDs : t \notin ListTasks(DB', u, NoID, FALSE, Nil).tasks]_vars
\* C26 - No assignment outlives its task: in every state reached by
\* CreateTask, AssignUsers, UnassignUsers, DeleteTask and DeleteOrganization,
\* every live assignment row refers to a task that still exists.
C26_NoOrphanAssignment ==
    \A t \in TaskIDs, u \in UserIDs :
        assignments[t][u] = "live" => tasks[t].state = "live"
\* C27 - Assignees are members at assignment time: whenever AssignUsers
\* returns success, every user it assigned was a member of the task's
\* organization when the assignment rows were written, also when a
\* RemoveMember or DeleteOrganization ran between the count and the write.
C27_AssigneesAreMembers ==
    [][\A p \in Procs :
          (/\ inflight[p].op = "AssignUsers" /\ inflight[p].step = "read"
           /\ inflight'[p].step = "done")
          => \A u \in Range(inflight[p].ids) :
                FindMember(DB, inflight[p].org, u) # NoRow]_vars
\* C29 - Membership uniqueness under concurrency: a pair (organization,
\* user) has at most one membership row; when two JoinOrganizationByInvite
\* calls of the same user and organization both pass the membership check
\* before either inserts, at most one adds a row and reports success, and
\* the losing call leaves the user's role as it is.
C29_MembershipUnique ==
    [][\A p \in Procs :
          /\ (/\ inflight[p].op = "JoinOrganizationByInvite" /\ inflight[p].step = "read"
              /\ inflight'[p].step # "read"
              /\ members[inflight[p].org][inflight[p].actor] # NoRow)
             => inflight'[p].step = "failed" /\ members' = members
          /\ (inflight[p].op = "JoinOrganizationByInvite" /\ inflight'[p].step = "done"
               /\ inflight[p].step = "read")
             => /\ members[inflight[p].org][inflight[p].actor] = NoRow
                /\ members' = [members EXCEPT ![inflight[p].org][inflight[p].actor] =
                                                  RoleMember]]_vars

\* two calls of one user and one organization passed the check, one has
\* inserted and reported success, the other has failed
C29_Witness ==
    \E p, q \in Procs :
        /\ p # q
        /\ inflight[p].op = "JoinOrganizationByInvite" /\ inflight[p].step = "done"
        /\ inflight[q].op = "JoinOrganizationByInvite" /\ inflight[q].step = "failed"
        /\ inflight[p].org = inflight[q].org /\ inflight[p].actor = inflight[q].actor
        /\ members[inflight[p].org][inflight[p].actor] = RoleMember

\* C28 - Concurrent toggles both take effect: when two
\* ToggleTaskStatus calls on one task both return success, under every
\* interleaving of their reads and writes the two calls return different
\* statuses and the persisted status is the one before the two calls (the
\* status the later of the two returned).
C28_ConcurrentToggles ==
    \A p, q \in Procs :
        (/\ p # q
         /\ inflight[p].op = "ToggleTaskStatus" /\ inflight[p].step = "done"
         /\ inflight[q].op = "ToggleTaskStatus" /\ inflight[q].step = "done"
         /\ inflight[p].task = inflight[q].task)
        => inflight[p].row.status # inflight[q].row.status
\* C30 - Deleted organizations admit no one: once DeleteOrganization has
\* succeeded for an organization, no later JoinOrganizationByInvite,
\* CreateTask or CreateOrganization call creates a membership row or a task
\* of it: in every later state it has no members and no tasks.
C30_DeletedAdmitNoOne ==
    \A o \in OrgIDs :
        orgs[o].state = "deleted" =>
           /\ \A u \in UserIDs : members[o][u] = NoRow
           /\ \A t \in TaskIDs : tasks[t].organization_id = o => tasks[t].state # "live"

\* an organization that had a task is deleted and a call made afterwards
\* has succeeded
C30_Witness ==
    \E o \in OrgIDs :
        /\ orgs[o].state = "deleted"
        /\ \E t \in TaskIDs : tasks[t].organization_id = o /\ tasks[t].state = "deleted"
        /\ last.op \in {"CreateOrganization", "JoinOrganizationByInvite", "CreateTask"}
        /\ last.err = "ok"

====
